---- MODULE Spec2Model ----
(***************************************************************************)
(* Scenario-construction and model-driving pipeline of KCaldeira/fair:     *)
(*   interpolate_emissions.py            (Interpolator)                    *)
(*   create_counterfactual_interpolated.py (CounterfactualAdjuster)        *)
(*   run_fair_comparison.py              (TimegridMapper, ModelDriver)     *)
(*   run_fair_comparison_proper.py       (ModelDriver, second variant)     *)
(*                                                                         *)
(* Each script is a program of its own that reads its input files and     *)
(* writes its output file; each gets a specification of its own whose     *)
(* Init draws the script's inputs from bounded sets.                      *)
(*                                                                         *)
(* A numeric cell is a sequence: <<>> is a missing value (NaN), <<n, d>>   *)
(* the number n/d in lowest terms.  Reals are modelled by rationals (exact *)
(* arithmetic).                                                            *)
(***************************************************************************)
EXTENDS Integers, Sequences, FiniteSets, TLC

VARIABLES
    prog,               \* which script this behaviour runs
    pc,                 \* the script's position
    \* ---- create_counterfactual_interpolated.py ----
    df_excel,           \* the reference workbook: rows of raw cells (Z, AA, AC)
    adjustment_data,    \* the filtered adjustment rows
    df_interpolated,    \* the table read from the interpolated emissions file
    df_counterfactual,  \* the copy the adjustments are applied to
    adj_i,              \* position of the loop over adjustment_data
    warned,             \* years for which "Warning: Year ... not found" was printed
    output_csv,         \* the file written by to_csv (<<>> while not written)
    summary,            \* the printed summary (<<>> while not printed)
    \* ---- interpolate_emissions.py ----
    df_baseline,        \* the table read from the baseline emissions file
    year_cols,          \* the sorted year columns of df_baseline
    interpolated_data,  \* the list of row dictionaries built so far
    interp_i,           \* position of the loop over the rows of df_baseline
    sparse_warned,      \* rows for which "insufficient data" was printed
    interpolated_csv,   \* the file written by to_csv (<<>> while not written)
    \* ---- run_fair_scenario (run_fair_comparison.py, ..._proper.py) ----
    variant,            \* "simple": run_fair_comparison.py, "proper": ..._proper.py
    scenario_name,      \* the scenario_name argument of run_fair_scenario
    df_emissions,       \* the table read from emissions_file
    load_i,             \* position of the loop that loads the emissions
    emissions,          \* f.emissions: species -> timepoint index -> value
    filled_log,         \* the printed "Filled n timepoints for <species>" lines
    load_warned,        \* variables reported as not found / skipped
    baseline_concentration, \* f.species_configs['baseline_concentration']
    concentration,      \* f.concentration: species -> timebound index -> value
    forcing,            \* f.forcing: species -> timebound index -> value
    temperature,        \* f.temperature: layer -> timebound index -> value
    cumulative_emissions, \* f.cumulative_emissions: species -> timebound index -> value
    airborne_emissions, \* f.airborne_emissions: species -> timebound index -> value
    allocated,          \* what the engine puts into its arrays and defaults
    climate_configs,    \* f.climate_configs: the physical parameters
    run_count,          \* how many times f.run() was called
    results,            \* the returned results dictionary (<<>> before the return)
    \* ---- main, compare_scenarios / create_comparison ----
    main_pc,            \* main's position ("none" when a script runs without main)
    baseline_file,      \* inputs/emissions_ssp245_interpolated.csv
    counterfactual_file, \* inputs/emissions_ssp245_interpolated_counterfactual_1975.csv
    baseline_results,   \* what run_fair_scenario returned for baseline_ssp245
    counterfactual_results, \* what it returned for counterfactual_1975
    comparison,         \* the comparison dictionary (<<>> while not computed)
    \* ---- the scripts run one after the other, more than once ----
    execution,          \* which execution of the pipeline this is (0: a script alone)
    first_execution,    \* the files and the comparison of the first execution
    \* ---- two calls of run_fair_scenario in progress at once ----
    running,            \* the call that is executing: "none", "baseline", "counterfactual"
    suspended,          \* the local variables of the call that is not (<<>>: no such call)
    interleaved_results, \* what each of the two calls returned (<<>>: not returned)
    \* ---- the export ----
    results_csv,        \* results/fair_comparison_results.csv (<<>>: not written)
    custom_series,     \* series handed to the length checks of the proper loader
    fair_length,        \* number of emissions timepoints of the engine it is written_series to
    written_series              \* series written to the engine (<<>>: not written yet)

adjVars == <<df_excel, adjustment_data, df_interpolated, df_counterfactual,
             adj_i, warned, output_csv, summary>>

interpVars == <<df_baseline, year_cols, interpolated_data, interp_i,
                sparse_warned, interpolated_csv>>

loadVars == <<df_emissions, load_i, emissions, filled_log, load_warned>>

stateVars == <<baseline_concentration, concentration, forcing, temperature,
               cumulative_emissions, airborne_emissions>>

driverVars == <<variant, scenario_name, loadVars, stateVars, allocated, climate_configs, run_count,
               results>>

runVars == <<running, suspended, interleaved_results>>

fitVars == <<custom_series, fair_length, written_series>>
pipeVars == <<execution, first_execution, runVars, results_csv, fitVars>>

mainVars == <<main_pc, baseline_file, counterfactual_file, baseline_results,
              counterfactual_results, comparison, pipeVars>>

vars == <<prog, pc, adjVars, interpVars, driverVars, mainVars>>

(***************************************************************************)
(* Values                                                                  *)
(***************************************************************************)
NaN == <<>>

RECURSIVE Gcd(_, _)
Gcd(a, b) == IF b = 0 THEN a ELSE Gcd(b, a % b)

Abs(a) == IF a < 0 THEN -a ELSE a

\* the rational n/d in lowest terms with a positive denominator
Rat(n, d) ==
    LET g == Gcd(Abs(n), Abs(d))
        s == IF d < 0 THEN -1 ELSE 1
    IN <<(s * n) \div g, (s * d) \div g>>

Num(v) == <<v, 1>>

IsNaN(c) == c = NaN

\* the least common denominator of two rationals
Lcd(a, b) == (a[2] \div Gcd(a[2], b[2])) * b[2]

\* float arithmetic: NaN is absorbing
Add(a, b) ==
    IF IsNaN(a) \/ IsNaN(b) THEN NaN
    ELSE Rat(a[1] * (Lcd(a, b) \div a[2]) + b[1] * (Lcd(a, b) \div b[2]), Lcd(a, b))

Sub(a, b) ==
    IF IsNaN(a) \/ IsNaN(b) THEN NaN
    ELSE Rat(a[1] * (Lcd(a, b) \div a[2]) - b[1] * (Lcd(a, b) \div b[2]), Lcd(a, b))

Mul(a, k) == IF IsNaN(a) THEN NaN ELSE Rat(a[1] * k, a[2])

\* a comparison with NaN is False
Geq(a, b) ==
    /\ ~IsNaN(a) /\ ~IsNaN(b)
    /\ a[1] * (Lcd(a, b) \div a[2]) >= b[1] * (Lcd(a, b) \div b[2])

Leq(a, b) ==
    /\ ~IsNaN(a) /\ ~IsNaN(b)
    /\ a[1] * (Lcd(a, b) \div a[2]) <= b[1] * (Lcd(a, b) \div b[2])

\* int(x): truncation towards zero
IntOf(a) == IF a[1] >= 0 THEN a[1] \div a[2] ELSE -((-a[1]) \div a[2])

RECURSIVE SetSum(_, _)
\* the sum of f[x] over the finite set S
SetSum(f, S) ==
    IF S = {} THEN Num(0)
    ELSE LET x == CHOOSE x \in S : TRUE IN Add(f[x], SetSum(f, S \ {x}))

(***************************************************************************)
(* CounterfactualAdjuster: create_counterfactual_interpolated.py           *)
(***************************************************************************)
WindowStart == 1976

WindowEnd == 2023

MtPerGt == 1000

CO2Variable == "Emissions|CO2"

\* pd.to_numeric(errors='coerce'): a numeric cell keeps its value, text and
\* blanks become NaN
ToNumeric(cell) == IF cell.kind = "num" THEN Num(cell.v) ELSE NaN

\* one row of adjustment_data as built at lines 44-54
AdjustmentRow(raw) ==
    LET year   == ToNumeric(raw.Z)
        actual == ToNumeric(raw.AA)
        cf     == ToNumeric(raw.AC)
        gt     == Sub(cf, actual)
    IN [Year |-> year, Actual_CO2_Gt |-> actual, Counterfactual_CO2_Gt |-> cf,
        Adjustment_Gt |-> gt, Adjustment_Mt |-> Mul(gt, MtPerGt)]

\* the boolean filter of lines 57-61 (a comparison with NaN is False)
InWindow(r) ==
    /\ Geq(r.Year, Num(WindowStart))
    /\ Leq(r.Year, Num(WindowEnd))
    /\ ~IsNaN(r.Adjustment_Mt)

RECURSIVE FilterRows(_)
FilterRows(rows) ==
    IF rows = <<>> THEN <<>>
    ELSE LET r == AdjustmentRow(Head(rows))
         IN (IF InWindow(r) THEN <<r>> ELSE <<>>) \o FilterRows(Tail(rows))

\* mask = df['Variable'] == 'Emissions|CO2'
MaskNone(row) == TRUE

Mask(row) == row.Variable = CO2Variable

\* the unit the adjustment is added in (Adjustment_Mt rather than _Gt)
AdjustmentOfGt(r) == r.Adjustment_Gt

AdjustmentOf(r) == r.Adjustment_Mt

\* df.loc[mask, str(year)] += adjustment
AddToColumn(df, year, adjustment) ==
    [df EXCEPT !.rows =
        [i \in DOMAIN df.rows |->
            IF Mask(df.rows[i])
            THEN [df.rows[i] EXCEPT !.cells[year] = Add(@, adjustment)]
            ELSE df.rows[i]]]

\* len(co2_row) == 0 taken over the rows of any variable
HasAnyRow(df) == df.rows # <<>>

\* lines 70-73: co2_row = df[df['Variable'] == 'Emissions|CO2'] is not empty
HasCO2Row(df) == \E i \in DOMAIN df.rows : df.rows[i].Variable = CO2Variable

\* lines 22-63: read the workbook, coerce, compute and filter the adjustments
ReadExcel ==
    /\ prog = "adjust" /\ pc = "start"
    /\ adjustment_data' = FilterRows(df_excel)
    /\ pc' = "filtered"
    /\ UNCHANGED <<prog, df_excel, df_interpolated, df_counterfactual,
                   adj_i, warned, output_csv, summary>>
    /\ UNCHANGED <<interpVars, driverVars, mainVars>>

\* lines 65-79: read the interpolated file; no CO2 row raises ValueError
ReadInterpolated ==
    /\ prog = "adjust" /\ pc = "filtered"
    /\ IF HasCO2Row(df_interpolated)
       THEN /\ df_counterfactual' = df_interpolated
            /\ adj_i' = 1
            /\ pc' = "loop"
       ELSE /\ pc' = "raised"
            /\ UNCHANGED <<df_counterfactual, adj_i>>
    /\ UNCHANGED <<prog, df_excel, adjustment_data, df_interpolated,
                   warned, output_csv, summary>>
    /\ UNCHANGED <<interpVars, driverVars, mainVars>>

\* df_interpolated were df_counterfactual the same object
Aliased(df, modified) == modified

\* line 79: df_counterfactual = df_interpolated.copy(), so that what the loop
\* writes into df_counterfactual does not reach df_interpolated
Copied(df, modified) == df

\* the test of line 89 were it always true
HasColumnAlways(df, year) == TRUE

\* line 89: str(year) in df_counterfactual.columns
HasColumn(df, year) == year \in df.columns

\* lines 83-93: one iteration of the loop over adjustment_data
ApplyAdjustment ==
    /\ prog = "adjust" /\ pc = "loop"
    /\ adj_i <= Len(adjustment_data)
    /\ LET row        == adjustment_data[adj_i]
           year       == IntOf(row.Year)
           adjustment == AdjustmentOf(row)
       IN IF HasColumn(df_counterfactual, year)
          THEN /\ df_counterfactual' = AddToColumn(df_counterfactual, year, adjustment)
               /\ UNCHANGED warned
          ELSE /\ warned' = Append(warned, year)
               /\ UNCHANGED df_counterfactual
    /\ adj_i' = adj_i + 1
    /\ df_interpolated' = Copied(df_interpolated, df_counterfactual')
    /\ UNCHANGED <<prog, pc, df_excel, adjustment_data, output_csv, summary>>
    /\ UNCHANGED <<interpVars, driverVars, mainVars>>

\* sum of a column of adjustment_data
RECURSIVE AdjustmentSum(_)
AdjustmentSum(rows) ==
    IF rows = <<>> THEN Num(0)
    ELSE Add(Head(rows).Adjustment_Mt, AdjustmentSum(Tail(rows)))

\* lines 95-106: write the counterfactual file and print the summary
SaveCounterfactual ==
    /\ prog = "adjust" /\ pc = "loop"
    /\ adj_i > Len(adjustment_data)
    /\ output_csv' = <<df_counterfactual>>
    /\ summary' = <<[years_adjusted |-> Len(adjustment_data),
                     total_cumulative |-> AdjustmentSum(adjustment_data)]>>
    /\ pc' = "done"
    /\ UNCHANGED <<prog, df_excel, adjustment_data, df_interpolated,
                   df_counterfactual, adj_i, warned>>
    /\ UNCHANGED <<interpVars, driverVars, mainVars>>

NextAdjust == ReadExcel \/ ReadInterpolated \/ ApplyAdjustment \/ SaveCounterfactual

(***************************************************************************)
(* Inputs of the adjuster                                                  *)
(***************************************************************************)
MaxRefRows == 2

NumCell(n) == [kind |-> "num", v |-> n]

TextCell == [kind |-> "text", v |-> 0]

\* years a workbook row may carry: a header text and the years around both
\* ends of the window
RefYearCells == {TextCell} \cup {NumCell(y) : y \in {1975, 1976, 2023, 2024}}

RefActualCells == {TextCell, NumCell(20)}

RefCounterfactualCells == {TextCell, NumCell(25), NumCell(18)}

RefRows == [Z : RefYearCells, AA : RefActualCells, AC : RefCounterfactualCells]

\* workbooks of at most MaxRefRows rows, one row per year
RefTables ==
    {t \in UNION {[1..n -> RefRows] : n \in 0..MaxRefRows} :
        \A i, j \in DOMAIN t :
            (i # j /\ t[i].Z.kind = "num" /\ t[j].Z.kind = "num") => t[i].Z.v # t[j].Z.v}

SampleYears == {1750, 1975, 1976, 1980, 2023}

TargetColumnChoices == {SampleYears, SampleYears \ {1976}, SampleYears \ {2023}}

TargetVariableChoices ==
    {<<"Emissions|CO2">>, <<"Emissions|CH4", "Emissions|CO2">>,
     <<"Emissions|CO2", "Emissions|CH4">>, <<"Emissions|CH4">>}

UnitOf(variable) == IF variable = CO2Variable THEN "Mt CO2/yr" ELSE "Mt CH4/yr"

\* a dense table: every cell of every row holds a number
TargetTable(variables, columns) ==
    [columns |-> columns,
     rows |-> [i \in DOMAIN variables |->
                [Scenario |-> "ssp245", Variable |-> variables[i],
                 Unit |-> UnitOf(variables[i]),
                 cells |-> [y \in columns |-> Num(10 * y + i)]]]]

NoTable == [columns |-> {}, rows |-> <<>>]

\* the variables of a script that is not the one running
IdleAdjust ==
    /\ df_excel = <<>>
    /\ df_interpolated = NoTable
    /\ adjustment_data = <<>>
    /\ df_counterfactual = NoTable
    /\ adj_i = 0
    /\ warned = <<>>
    /\ output_csv = <<>>
    /\ summary = <<>>

IdleInterp ==
    /\ df_baseline = NoTable
    /\ year_cols = <<>>
    /\ interpolated_data = <<>>
    /\ interp_i = 0
    /\ sparse_warned = <<>>
    /\ interpolated_csv = <<>>

IdleDriver ==
    /\ variant = "none"
    /\ scenario_name = "none"
    /\ df_emissions = NoTable
    /\ load_i = 0
    /\ emissions = <<>>
    /\ filled_log = <<>>
    /\ load_warned = <<>>
    /\ baseline_concentration = <<>>
    /\ concentration = <<>>
    /\ forcing = <<>>
    /\ temperature = <<>>
    /\ cumulative_emissions = <<>>
    /\ airborne_emissions = <<>>
    /\ allocated = <<>>
    /\ climate_configs = <<>>
    /\ run_count = 0
    /\ results = <<>>

IdleMain ==
    /\ main_pc = "none"
    /\ baseline_file = NoTable
    /\ counterfactual_file = NoTable
    /\ baseline_results = <<>>
    /\ counterfactual_results = <<>>
    /\ comparison = <<>>
    /\ execution = 0
    /\ first_execution = <<>>
    /\ running = "none" /\ suspended = <<>> /\ interleaved_results = <<>>
    /\ results_csv = <<>>
    /\ custom_series = <<>> /\ fair_length = 0 /\ written_series = <<>>

InitAdjust ==
    /\ prog = "adjust" /\ pc = "start"
    /\ IdleInterp
    /\ IdleDriver
    /\ IdleMain
    /\ df_excel \in RefTables
    /\ \E vs \in TargetVariableChoices, cs \in TargetColumnChoices :
          df_interpolated = TargetTable(vs, cs)
    /\ adjustment_data = <<>>
    /\ df_counterfactual = NoTable
    /\ adj_i = 0
    /\ warned = <<>>
    /\ output_csv = <<>>
    /\ summary = <<>>

SpecAdjust == InitAdjust /\ [][NextAdjust]_vars

(***************************************************************************)
(* Claims about the adjuster                                               *)
(***************************************************************************)
\* the workbook rows whose year cell is the number y
RefRowsOf(y) == {k \in DOMAIN df_excel : df_excel[k].Z.kind = "num" /\ df_excel[k].Z.v = y}

BothValues(k) == df_excel[k].AA.kind = "num" /\ df_excel[k].AC.kind = "num"

FrameHolds(before, after) ==
    /\ after.columns = before.columns
    /\ Len(after.rows) = Len(before.rows)
    /\ \A i \in DOMAIN before.rows :
        /\ after.rows[i].Scenario = before.rows[i].Scenario
        /\ after.rows[i].Variable = before.rows[i].Variable
        /\ after.rows[i].Unit = before.rows[i].Unit
        /\ DOMAIN after.rows[i].cells = DOMAIN before.rows[i].cells
        /\ before.rows[i].Variable # "Emissions|CO2"
              => after.rows[i].cells = before.rows[i].cells
        /\ \A y \in before.columns :
              (y < 1976 \/ y > 2023) => after.rows[i].cells[y] = before.rows[i].cells[y]

\* C1: the adjuster changes only the 'Emissions|CO2' row and only the years
\* 1976..2023: every other row, every row's Scenario/Variable/Unit, the set of
\* columns and the CO2 cells outside the window are those of the input table,
\* in the working copy at every step and in the file that is written.
C1_AdjusterFrame ==
    /\ pc \in {"loop", "done"} => FrameHolds(df_interpolated, df_counterfactual)
    /\ output_csv # <<>> => FrameHolds(df_interpolated, output_csv[1])

\* a run that wrote its output, changed a CO2 cell inside the window, and had
\* a second row and a reference row for 1975 that it had to leave alone
C1_Witness ==
    /\ pc = "done" /\ output_csv # <<>>
    /\ \E i \in DOMAIN df_interpolated.rows :
          df_interpolated.rows[i].Variable # "Emissions|CO2"
    /\ \E i \in DOMAIN df_interpolated.rows, y \in df_interpolated.columns :
          output_csv[1].rows[i].cells[y] # df_interpolated.rows[i].cells[y]
    /\ 1975 \in df_interpolated.columns
    /\ \E k \in RefRowsOf(1975) : BothValues(k)

AppliedSum ==
    LET i    == CHOOSE i \in DOMAIN df_interpolated.rows :
                   df_interpolated.rows[i].Variable = "Emissions|CO2"
        diff == [y \in df_interpolated.columns |->
                   Sub(output_csv[1].rows[i].cells[y], df_interpolated.rows[i].cells[y])]
    IN SetSum(diff, df_interpolated.columns)

\* C3: the sum over the years of (CO2 after - CO2 before) equals the printed
\* 'Total cumulative adjustment', for every workbook and every target table.
C3_Reconciliation ==
    pc = "done" => AppliedSum = summary[1].total_cumulative

(***************************************************************************)
(* Interpolator: interpolate_emissions.py                                  *)
(***************************************************************************)
HorizonStart == 1750

HorizonStop == 2024

\* full_year_range = list(range(1750, 2024))
FullYearRange == HorizonStart..(HorizonStop - 1)

\* sorted(...) of a set of integers
SortedSeq(S) ==
    [i \in 1..Cardinality(S) |->
        CHOOSE x \in S : Cardinality({y \in S : y < x}) = i - 1]

RECURSIVE Available(_, _)
\* lines 52-56: the years of year_cols whose cell in the row is not NaN
Available(row, years) ==
    IF years = <<>> THEN <<>>
    ELSE (IF ~IsNaN(row.cells[Head(years)]) THEN <<Head(years)>> ELSE <<>>)
            \o Available(row, Tail(years))

\* np.interp(x, xp, fp) with xp increasing: fp[1] left of xp, fp[n] right of
\* it, fp[j] at xp[j], and slope * (x - xp[j]) + fp[j] inside an interval
InterpZeroOutside(x, xp, fp) ==
    LET n == Len(xp)
    IN IF x < xp[1] \/ x > xp[n] THEN Num(0)
       ELSE LET j == CHOOSE j \in 1..n : xp[j] <= x /\ (j = n \/ x < xp[j + 1])
            IN IF j = n \/ xp[j] = x THEN fp[j]
               ELSE Add(fp[j],
                        Rat(Sub(fp[j + 1], fp[j])[1] * (x - xp[j]),
                            Sub(fp[j + 1], fp[j])[2] * (xp[j + 1] - xp[j])))

Interp(x, xp, fp) ==
    LET n == Len(xp)
    IN IF x < xp[1] THEN fp[1]
       ELSE IF x > xp[n] THEN fp[n]
       ELSE LET j == CHOOSE j \in 1..n : xp[j] <= x /\ (j = n \/ x < xp[j + 1])
            IN IF j = n \/ xp[j] = x THEN fp[j]
               ELSE Add(fp[j],
                        Rat(Sub(fp[j + 1], fp[j])[1] * (x - xp[j]),
                            Sub(fp[j + 1], fp[j])[2] * (xp[j + 1] - xp[j])))

\* line 68: available_values[0] if available_values else 0
DefaultValueNaN(available_values) ==
    IF available_values # <<>> THEN available_values[1] ELSE NaN

\* the fill value were it 0 whatever the row holds
DefaultValueZero(available_values) == Num(0)

DefaultValue(available_values) ==
    IF available_values # <<>> THEN available_values[1] ELSE Num(0)

\* lines 47-75: the row dictionary built for one row of df_baseline
RowData(row, years) ==
    LET available_years  == Available(row, years)
        available_values == [k \in DOMAIN available_years |-> row.cells[available_years[k]]]
    IN [Scenario |-> row.Scenario, Variable |-> row.Variable, Unit |-> row.Unit,
        cells |->
            IF Len(available_values) < 2
            THEN [year \in FullYearRange |-> DefaultValue(available_values)]
            ELSE [year \in FullYearRange |-> Interp(year, available_years, available_values)]]

\* lines 20-39: read the baseline file and find its year columns; min() and
\* max() of an empty year_cols raise ValueError
ReadBaseline ==
    /\ prog = "interp" /\ pc = "start"
    /\ year_cols' = SortedSeq(df_baseline.columns)
    /\ IF df_baseline.columns = {}
       THEN pc' = "raised" /\ UNCHANGED interp_i
       ELSE pc' = "rows" /\ interp_i' = 1
    /\ UNCHANGED <<prog, df_baseline, interpolated_data, sparse_warned, interpolated_csv>>
    /\ UNCHANGED <<adjVars, driverVars, mainVars>>

\* lines 47-77: one iteration of the loop over the rows
InterpolateRow ==
    /\ prog = "interp" /\ pc = "rows"
    /\ interp_i <= Len(df_baseline.rows)
    /\ LET row == df_baseline.rows[interp_i]
       IN /\ interpolated_data' = Append(interpolated_data, RowData(row, year_cols))
          /\ sparse_warned' = IF Len(Available(row, year_cols)) < 2
                              THEN Append(sparse_warned, interp_i)
                              ELSE sparse_warned
    /\ interp_i' = interp_i + 1
    /\ UNCHANGED <<prog, pc, df_baseline, year_cols, interpolated_csv>>
    /\ UNCHANGED <<adjVars, driverVars, mainVars>>

\* lines 79-93: build the DataFrame and write it
SaveInterpolated ==
    /\ prog = "interp" /\ pc = "rows"
    /\ interp_i > Len(df_baseline.rows)
    /\ interpolated_csv' =
          <<[columns |-> IF interpolated_data = <<>> THEN {} ELSE FullYearRange,
             rows |-> interpolated_data]>>
    /\ pc' = "done"
    /\ UNCHANGED <<prog, df_baseline, year_cols, interpolated_data, interp_i, sparse_warned>>
    /\ UNCHANGED <<adjVars, driverVars, mainVars>>

NextInterp == ReadBaseline \/ InterpolateRow \/ SaveInterpolated

(***************************************************************************)
(* Inputs of the interpolator                                              *)
(***************************************************************************)
MaxBaselineRows == 1

\* year columns a baseline file may have: one before 1750 and two inside
\* 1750..2023
BaselineYears == {1740, 1850, 2000}

BaselineCells == {NaN, Num(0), Num(100)}

BaselineVariables == <<"Emissions|CO2", "Emissions|CH4", "Emissions|N2O">>

BaselineTables ==
    UNION {
        {[columns |-> cs,
          rows |-> [i \in 1..n |->
                     [Scenario |-> "ssp245", Variable |-> BaselineVariables[i],
                      Unit |-> "Mt/yr", cells |-> cells[i]]]] :
            cells \in [1..n -> [cs -> BaselineCells]]} :
        n \in 0..MaxBaselineRows, cs \in SUBSET BaselineYears}

InitInterp ==
    /\ prog = "interp" /\ pc = "start"
    /\ df_baseline \in BaselineTables
    /\ year_cols = <<>>
    /\ interpolated_data = <<>>
    /\ interp_i = 0
    /\ sparse_warned = <<>>
    /\ interpolated_csv = <<>>
    /\ IdleAdjust
    /\ IdleDriver
    /\ IdleMain

SpecInterp == InitInterp /\ [][NextInterp]_vars

(***************************************************************************)
(* Claims about the interpolator                                           *)
(***************************************************************************)
\* the years of input row i that hold a value
Known(i) == {y \in df_baseline.columns : df_baseline.rows[i].cells[y] # NaN}

InputValue(i, y) == df_baseline.rows[i].cells[y]

Consecutive(i, y1, y2) ==
    /\ y1 \in Known(i) /\ y2 \in Known(i) /\ y1 < y2
    /\ ~\E z \in Known(i) : y1 < z /\ z < y2

\* C4: for every row with at least two known points and every year y of
\* 1750..2023, the interpolated value is the known value at a known year,
\* v1 + (v2 - v1)(y - y1)/(y2 - y1) strictly between consecutive known years
\* y1 < y < y2, the first known value before the first known year and the
\* last known value after the last known year.
C4_InterpolatorResult ==
    \A i \in DOMAIN interpolated_data :
        LET K == Known(i)
        IN Cardinality(K) >= 2 =>
            \A y \in 1750..2023 :
                LET out == interpolated_data[i].cells[y]
                IN /\ y \in K => out = InputValue(i, y)
                   /\ \A y1, y2 \in K :
                        (y1 < y /\ y < y2 /\ Consecutive(i, y1, y2)) =>
                            out = Rat(InputValue(i, y1)[1] * (y2 - y1)
                                        + (InputValue(i, y2)[1] - InputValue(i, y1)[1]) * (y - y1),
                                      y2 - y1)
                   /\ (\A z \in K : y < z) =>
                        \E z \in K : (\A w \in K : z <= w) /\ out = InputValue(i, z)
                   /\ (\A z \in K : y > z) =>
                        \E z \in K : (\A w \in K : z >= w) /\ out = InputValue(i, z)

\* the example of the claim: the points (1850, 0) and (2000, 100) alone give
\* 50 at 1925, 0 at 1750 and 100 at 2023
C4_Witness ==
    /\ pc = "done"
    /\ \E i \in DOMAIN interpolated_data :
          /\ Known(i) = {1850, 2000}
          /\ InputValue(i, 1850) = Num(0) /\ InputValue(i, 2000) = Num(100)
          /\ interpolated_data[i].cells[1925] = Num(50)
          /\ interpolated_data[i].cells[1750] = Num(0)
          /\ interpolated_data[i].cells[2023] = Num(100)

\* C5: the written table has as many rows as the input, each with the input
\* row's Scenario/Variable/Unit and with exactly the years 1750..2023 (274 of
\* them), each holding a value, whatever the known points and year columns.
C5_DenseSeries ==
    interpolated_csv # <<>> =>
        /\ Len(interpolated_csv[1].rows) = Len(df_baseline.rows)
        /\ \A i \in DOMAIN interpolated_csv[1].rows :
            LET r == interpolated_csv[1].rows[i]
            IN /\ r.Scenario = df_baseline.rows[i].Scenario
               /\ r.Variable = df_baseline.rows[i].Variable
               /\ r.Unit = df_baseline.rows[i].Unit
               /\ DOMAIN r.cells = 1750..2023
               /\ Cardinality(DOMAIN r.cells) = 274
               /\ \A y \in 1750..2023 : r.cells[y] # NaN

\* a written table with a row that had no known point at all, read from a
\* file with a year column outside 1750..2023
C5_Witness ==
    /\ interpolated_csv # <<>>
    /\ 1740 \in df_baseline.columns
    /\ \E i \in DOMAIN interpolated_csv[1].rows : Known(i) = {}

(***************************************************************************)
(* ModelDriver: run_fair_scenario of run_fair_comparison.py ("simple") and *)
(* of run_fair_comparison_proper.py ("proper").                            *)
(*                                                                         *)
(* Time is counted in half years, so that the engine's timepoint           *)
(* year + 0.5 is the integer 2 * year + 1 and the timebound year is        *)
(* 2 * year.                                                               *)
(***************************************************************************)
DriverStart == 1750

DriverEnd == 2023

\* f.define_time(1750, 2023, 1): the timebounds 1750, 1751, ..., 2023 and,
\* between them, the timepoints 1750.5, ..., 2022.5 ("FAIR's 273 timepoints
\* (1750-2022)")
TimeBounds == [k \in 1..(DriverEnd - DriverStart + 1) |-> 2 * (DriverStart + k - 1)]

TimePoints == [k \in 1..(DriverEnd - DriverStart) |-> 2 * (DriverStart + k - 1) + 1]

\* simple_species, and the species of read_properties() the driver names
SimpleSpecies == <<"CO2", "CH4", "N2O", "Sulfur", "BC", "OC">>

ProperSpecies == <<"CO2 FFI", "CO2 AFOLU", "CO2", "CH4", "N2O", "Sulfur", "BC", "OC">>

Range(f) == {f[i] : i \in DOMAIN f}

SpeciesOf(v) == IF v = "simple" THEN Range(SimpleSpecies) ELSE Range(ProperSpecies)

\* the species the engine has been given: f.define_species(species, props),
\* the coordinate of f.species_configs and of the arrays
EngineSpecies == DOMAIN allocated.baseline

\* variable_mapping, in its order
VariableMapping ==
    <<[csv_var |-> "Emissions|CO2", fair_species |-> "CO2"],
      [csv_var |-> "Emissions|CH4", fair_species |-> "CH4"],
      [csv_var |-> "Emissions|N2O", fair_species |-> "N2O"],
      [csv_var |-> "Emissions|Sulfur", fair_species |-> "Sulfur"],
      [csv_var |-> "Emissions|BC", fair_species |-> "BC"],
      [csv_var |-> "Emissions|OC", fair_species |-> "OC"]>>

\* fair_species_map.get(species, species)
FairSpeciesMap(variable) ==
    CASE variable = "Emissions|CO2" -> "CO2 FFI"
      [] variable = "Emissions|CH4" -> "CH4"
      [] variable = "Emissions|N2O" -> "N2O"
      [] variable = "Emissions|Sulfur" -> "Sulfur"
      [] variable = "Emissions|BC" -> "BC"
      [] variable = "Emissions|OC" -> "OC"
      [] OTHER -> variable

\* np.nan_to_num(x, nan=0.0)
NanToNum(c) == IF IsNaN(c) THEN Num(0) ELSE c

\* np.where(f.emissions.timepoints.values == target_timepoint)[0]: the
\* indices whose timepoint equals target_timepoint.  The timepoints increase
\* by one year per index, so the only candidate is looked up directly.
TimeIdxNearest(target_timepoint) ==
    LET k == (target_timepoint - TimePoints[1]) \div 2 + 1
    IN IF k \in DOMAIN TimePoints THEN {k}
       ELSE IF k - 1 \in DOMAIN TimePoints THEN {k - 1} ELSE {}

TimeIdx(target_timepoint) ==
    LET k == (target_timepoint - TimePoints[1]) \div 2 + 1
    IN IF k \in DOMAIN TimePoints /\ TimePoints[k] = target_timepoint THEN {k} ELSE {}

Min(S) == CHOOSE m \in S : \A x \in S : m <= x

\* lines 152-159 of run_fair_comparison.py: the loop over the year columns.
\* Year y writes its value at time_idx[0] when a timepoint equals y + 0.5, so
\* index k ends with the value of the last year that writes there, if there
\* is one (the year columns are visited in increasing order).
FillYears(column, years, species_values) ==
    [column |-> [k \in DOMAIN column |->
                    LET near    == {(TimePoints[k] - 1) \div 2, (TimePoints[k] - 1) \div 2 + 1}
                        writers == {y \in near \cap years : TimeIdx(2 * y + 1) # {}
                                                          /\ Min(TimeIdx(2 * y + 1)) = k}
                    IN IF writers = {} THEN column[k]
                       ELSE species_values[CHOOSE y \in writers : \A z \in writers : z <= y]],
     filled_count |-> Cardinality({y \in years : TimeIdx(2 * y + 1) # {}})]

\* the first row of the table whose Variable is csv_var (species_row.iloc[0])
RowsOf(df, csv_var) == {i \in DOMAIN df.rows : df.rows[i].Variable = csv_var}

\* lines 132-163 of run_fair_comparison.py: one entry of variable_mapping
LoadSpeciesSimple ==
    /\ prog = "driver" /\ variant = "simple" /\ pc = "load"
    /\ load_i <= Len(VariableMapping)
    /\ LET csv_var      == VariableMapping[load_i].csv_var
           fair_species == VariableMapping[load_i].fair_species
           found        == RowsOf(df_emissions, csv_var)
       IN IF found = {}
          THEN /\ load_warned' = Append(load_warned, csv_var)
               /\ UNCHANGED <<emissions, filled_log>>
          ELSE LET species_row    == df_emissions.rows[Min(found)]
                   years          == df_emissions.columns
                   species_values == [y \in years |-> NanToNum(species_row.cells[y])]
                   filled         == FillYears(emissions[fair_species], years,
                                               species_values)
               IN /\ emissions' = [emissions EXCEPT ![fair_species] = filled.column]
                  /\ filled_log' = Append(filled_log,
                                          [species |-> fair_species,
                                           filled |-> filled.filled_count])
                  /\ UNCHANGED load_warned
    /\ load_i' = load_i + 1
    /\ UNCHANGED <<prog, pc, variant, scenario_name, df_emissions, stateVars, allocated, climate_configs,
                   run_count, results>>
    /\ UNCHANGED <<adjVars, interpVars, mainVars>>

\* 'MtCO2' in str(unit_info), 'GtCO2' in str(unit_info)
HasMtCO2(unit) == unit \in {"MtCO2/yr", "MtCO2"}

HasGtCO2(unit) == unit \in {"GtCO2/yr", "GtCO2"}

\* lines 112-128 of run_fair_comparison_proper.py: CO2 is divided by 1000
\* unless the unit names GtCO2
ConvertUnits(fair_species, unit, c) ==
    IF fair_species = "CO2 FFI" /\ (HasMtCO2(unit) \/ ~HasGtCO2(unit))
    THEN (IF IsNaN(c) THEN NaN ELSE Rat(c[1], c[2] * 1000))
    ELSE c

\* a variant of the length checks that pads with the last value of the series
\* instead of zeros
FitLengthLast(values, n) ==
    [k \in 1..n |-> IF k <= Len(values) THEN values[k]
                    ELSE IF values = <<>> THEN Num(0) ELSE values[Len(values)]]

\* lines 143-153 and 162-175: pad with zeros or truncate to n entries
FitLength(values, n) ==
    [k \in 1..n |-> IF k <= Len(values) THEN values[k] ELSE Num(0)]

\* the loop of line 95 were it over range(1751, 2025)
PositionYearShifted(k) == DriverStart + k

\* line 95: for year in range(1750, 2024); the year whose value is appended
\* as the k-th entry of species_values
PositionYear(k) == DriverStart + k - 1

\* lines 75-198 of run_fair_comparison_proper.py: one row of the table
LoadRowProper ==
    /\ prog = "driver" /\ variant = "proper" /\ pc = "load"
    /\ load_i <= Len(df_emissions.rows)
    /\ LET row          == df_emissions.rows[load_i]
           fair_species == FairSpeciesMap(row.Variable)
       IN IF fair_species \in EngineSpecies
          THEN LET species_values ==
                       [k \in 1..(DriverEnd + 1 - DriverStart) |->
                           LET year == PositionYear(k)
                           IN IF year \in df_emissions.columns
                              THEN row.cells[year] ELSE Num(0)]
                   converted == [k \in DOMAIN species_values |->
                                   ConvertUnits(fair_species, row.Unit, species_values[k])]
                   fitted    == FitLength(FitLength(converted, Len(TimeBounds)),
                                          Len(TimePoints))
               IN /\ emissions' = [emissions EXCEPT ![fair_species] = fitted]
                  /\ filled_log' = Append(filled_log,
                                          [species |-> fair_species,
                                           filled |-> Len(fitted)])
                  /\ UNCHANGED load_warned
          ELSE /\ load_warned' = Append(load_warned, row.Variable)
               /\ UNCHANGED <<emissions, filled_log>>
    /\ load_i' = load_i + 1
    /\ UNCHANGED <<prog, pc, variant, scenario_name, df_emissions, stateVars, allocated, climate_configs,
                   run_count, results>>
    /\ UNCHANGED <<adjVars, interpVars, mainVars>>

\* the loading loop is over: on to the initialisation of the state
LoadDone ==
    /\ prog = "driver" /\ pc = "load"
    /\ load_i > (IF variant = "simple" THEN Len(VariableMapping) ELSE Len(df_emissions.rows))
    /\ pc' = IF variant = "simple" THEN "initialise" ELSE "climate"
    /\ UNCHANGED <<prog, variant, scenario_name, loadVars, stateVars, allocated, climate_configs,
                   run_count, results>>
    /\ UNCHANGED <<adjVars, interpVars, mainVars>>

\* the ocean layers of f.temperature (initialise(ocean_heat_capacity, [.., .., ..]))
NumLayers == 3

Layers == 0..(NumLayers - 1)

\* initialise(array, value): writes the first timebound only ("it only sets
\* first timepoint")
Initialise(array, value) ==
    [c \in DOMAIN array |-> [array[c] EXCEPT ![1] = value]]

\* a zeroing that reaches the first timebound only
ZeroFillFirstOnly(array) ==
    [c \in DOMAIN array |-> [array[c] EXCEPT ![1] = Num(0)]]

\* array.values[:] = 0.0
ZeroFill(array) ==
    [c \in DOMAIN array |-> [k \in DOMAIN array[c] |-> Num(0)]]

\* np.isnan(array.values).any()
HasNaN(array) == \E c \in DOMAIN array : \E k \in DOMAIN array[c] : IsNaN(array[c][k])

\* lines 180-183 of run_fair_comparison.py, 234-237 of ..._proper.py
InitialiseState ==
    /\ prog = "driver" /\ pc = "initialise"
    /\ forcing' = Initialise(forcing, Num(0))
    /\ temperature' = Initialise(temperature, Num(0))
    /\ cumulative_emissions' = Initialise(cumulative_emissions, Num(0))
    /\ airborne_emissions' = Initialise(airborne_emissions, Num(0))
    /\ pc' = IF variant = "simple" THEN "zero_all" ELSE "init_conc"
    /\ UNCHANGED <<prog, variant, scenario_name, loadVars, baseline_concentration, concentration,
                   allocated, climate_configs, run_count, results>>
    /\ UNCHANGED <<adjVars, interpVars, mainVars>>

\* lines 187-190 of run_fair_comparison.py
ZeroAll ==
    /\ prog = "driver" /\ variant = "simple" /\ pc = "zero_all"
    /\ temperature' = ZeroFill(temperature)
    /\ forcing' = ZeroFill(forcing)
    /\ cumulative_emissions' = ZeroFill(cumulative_emissions)
    /\ airborne_emissions' = ZeroFill(airborne_emissions)
    /\ pc' = "init_conc"
    /\ UNCHANGED <<prog, variant, scenario_name, loadVars, baseline_concentration, concentration,
                   allocated, climate_configs, run_count, results>>
    /\ UNCHANGED <<adjVars, interpVars, mainVars>>

\* lines 195-213 of run_fair_comparison.py: the value every timepoint of a
\* species' concentration is set to
ConcentrationSimple(species, baseline_value) ==
    IF ~IsNaN(baseline_value) THEN baseline_value
    ELSE CASE species = "CH4" -> Rat(7292, 10)
           [] species = "CO2" -> Num(278)
           [] species = "N2O" -> Num(270)
           [] species = "CO2 FFI" -> Num(278)
           [] species = "CO2 AFOLU" -> Num(278)
           [] OTHER -> Num(0)

\* the specie coordinate of f.species_configs['baseline_concentration']
BaselineCoordinate(v) == EngineSpecies

\* lines 241-257 of run_fair_comparison_proper.py: the baseline value is
\* written as it is; the fallbacks are for a species outside the coordinate
ConcentrationProper(species, old) ==
    IF species \in BaselineCoordinate("proper")
    THEN [k \in DOMAIN old |-> baseline_concentration[species]]
    ELSE CASE species = "CO2" -> [k \in DOMAIN old |-> Rat(2783, 10)]
           [] species = "CH4" -> [k \in DOMAIN old |-> Rat(7292, 10)]
           [] species = "N2O" -> [k \in DOMAIN old |-> Rat(2701, 10)]
           [] OTHER -> old

InitConcentration ==
    /\ prog = "driver" /\ pc = "init_conc"
    /\ IF variant = "simple"
       THEN /\ concentration' =
                 [sp \in DOMAIN concentration |->
                     IF sp \in BaselineCoordinate("simple")
                     THEN [k \in DOMAIN concentration[sp] |->
                             ConcentrationSimple(sp, baseline_concentration[sp])]
                     ELSE concentration[sp]]
            /\ pc' = "run"
       ELSE /\ concentration' =
                 [sp \in DOMAIN concentration |-> ConcentrationProper(sp, concentration[sp])]
            /\ pc' = "fix_nan"
    /\ UNCHANGED <<prog, variant, scenario_name, loadVars, baseline_concentration, forcing, temperature,
                   cumulative_emissions, airborne_emissions, allocated, climate_configs,
                   run_count, results>>
    /\ UNCHANGED <<adjVars, interpVars, mainVars>>

\* lines 324-335 of run_fair_comparison_proper.py
FixNaN ==
    /\ prog = "driver" /\ variant = "proper" /\ pc = "fix_nan"
    /\ IF HasNaN(temperature)
       THEN /\ temperature' = ZeroFill(temperature)
            /\ forcing' = ZeroFill(forcing)
            /\ cumulative_emissions' = ZeroFill(cumulative_emissions)
            /\ airborne_emissions' = ZeroFill(airborne_emissions)
       ELSE UNCHANGED <<temperature, forcing, cumulative_emissions, airborne_emissions>>
    /\ pc' = "run"
    /\ UNCHANGED <<prog, variant, scenario_name, loadVars, baseline_concentration, concentration,
                   allocated, climate_configs, run_count, results>>
    /\ UNCHANGED <<adjVars, interpVars, mainVars>>

\* The engine is a library outside the repository.  Its forward integration
\* is deterministic, works on the arrays of its own instance, and carries a
\* NaN of its inputs into its outputs ("NaN * sensitivity = NaN", lines
\* 325-326 of run_fair_comparison_proper.py).  EngineConcentration and
\* EngineTemperature stand for it: functions of the emissions and of the
\* state the driver prepared, with those three properties and no physics.
EmissionsDriven(v) == IF v = "simple" THEN EngineSpecies ELSE EngineSpecies \ {"CO2"}

EmittedInto(v, sp) == IF v = "proper" /\ sp = "CO2" THEN {"CO2 FFI", "CO2 AFOLU"} ELSE {sp}

EngineConcentration ==
    [sp \in DOMAIN concentration |->
        [k \in DOMAIN concentration[sp] |->
            IF k = 1 THEN concentration[sp][1]
            ELSE Add(concentration[sp][k],
                     SetSum([e \in EmittedInto(variant, sp) |-> emissions[e][k - 1]],
                            EmittedInto(variant, sp)))]]

EngineTemperature ==
    [l \in DOMAIN temperature |->
        [k \in DOMAIN temperature[l] |->
            IF k = 1 THEN temperature[l][1]
            ELSE Add(Add(temperature[l][k], concentration["CO2"][1]),
                     SetSum([e \in EmissionsDriven(variant) |-> emissions[e][k - 1]],
                            EmissionsDriven(variant)))]]

\* f.run(): the engine's forward integration
Run ==
    /\ prog = "driver" /\ pc = "run"
    /\ concentration' = EngineConcentration
    /\ temperature' = EngineTemperature
    /\ run_count' = run_count + 1
    /\ pc' = "extract"
    /\ UNCHANGED <<prog, variant, scenario_name, loadVars, baseline_concentration, forcing,
                   cumulative_emissions, airborne_emissions, allocated, climate_configs,
                   results>>
    /\ UNCHANGED <<adjVars, interpVars, mainVars>>

\* lines 222-228 of run_fair_comparison.py: years = np.arange(1750, 2023)
ResultsSimple ==
    [scenario_name |-> scenario_name,
     temperature |-> temperature[0],
     co2_concentration |-> concentration["CO2"],
     years |-> [k \in 1..(DriverEnd - DriverStart) |-> 2 * (DriverStart + k - 1)],
     emissions |-> emissions["CO2"]]

\* lines 404-440 of run_fair_comparison_proper.py: years = timebounds - 0.5,
\* the emissions padded with their last value to the length of years
ResultsProper ==
    LET years         == [k \in DOMAIN TimeBounds |-> TimeBounds[k] - 1]
        emissions_raw == emissions["CO2 FFI"]
    IN [temperature |-> temperature[0],
        co2_concentration |-> concentration["CO2"],
        years |-> years,
        emissions |-> [k \in DOMAIN years |->
                         IF k <= Len(emissions_raw) THEN emissions_raw[k]
                         ELSE emissions_raw[Len(emissions_raw)]]]

Extract ==
    /\ prog = "driver" /\ pc = "extract"
    /\ results' = <<IF variant = "simple" THEN ResultsSimple ELSE ResultsProper>>
    /\ pc' = "done"
    /\ UNCHANGED <<prog, variant, scenario_name, loadVars, stateVars, allocated, climate_configs,
                   run_count>>
    /\ UNCHANGED <<adjVars, interpVars, mainVars>>

\* f.allocate() leaves every array NaN; fill_from_rcmip() of the proper
\* variant then fills the emissions of the emissions-driven species
AllocatedEmissions(v) ==
    [sp \in EngineSpecies |->
        [k \in DOMAIN TimePoints |-> IF v = "simple" \/ sp = "CO2" THEN NaN ELSE Num(1)]]

\* a state array whose first timebound holds a and every later one b
Pattern(cells, a, b) ==
    [c \in cells |-> [k \in DOMAIN TimeBounds |-> IF k = 1 THEN a ELSE b]]

\* f.climate_configs as allocate() leaves it, and after the four initialise
\* calls on it (lines 108-114 of run_fair_comparison.py, 224-227 of
\* ..._proper.py)
UnsetClimateConfigs ==
    [ocean_heat_capacity |-> [l \in Layers |-> NaN],
     ocean_heat_transfer |-> [l \in Layers |-> NaN],
     deep_ocean_efficacy |-> NaN,
     forcing_4co2 |-> NaN]

ClimateValues ==
    [ocean_heat_capacity |-> [l \in Layers |->
         CASE l = 0 -> Rat(292, 100) [] l = 1 -> Rat(1128, 100) [] OTHER -> Rat(7325, 100)],
     ocean_heat_transfer |-> [l \in Layers |->
         CASE l = 0 -> Rat(73, 100) [] OTHER -> Rat(70, 100)],
     deep_ocean_efficacy |-> Rat(128, 100),
     forcing_4co2 |-> Rat(732, 100)]

\* lines 42-97 of run_fair_comparison.py, 37-55 of ..._proper.py: FAIR(),
\* define_time, define_scenarios, define_configs, define_species, allocate()
\* (and fill_from_rcmip() in the proper variant).  The proper variant never
\* calls fill_species_configs(): its baseline is what the engine holds.
Configure ==
    /\ prog = "driver" /\ pc = "configure"
    /\ emissions' = AllocatedEmissions(variant)
    /\ concentration' = Pattern(EngineSpecies, allocated.conc, allocated.conc)
    /\ forcing' = Pattern(EngineSpecies, allocated.first, allocated.rest)
    /\ temperature' = Pattern(Layers, NaN, NaN)
    /\ cumulative_emissions' = Pattern(EngineSpecies, allocated.first, allocated.rest)
    /\ airborne_emissions' = Pattern(EngineSpecies, allocated.first, allocated.rest)
    /\ baseline_concentration' =
          IF variant = "simple" THEN [sp \in EngineSpecies |-> NaN]
          ELSE allocated.baseline
    /\ climate_configs' = UnsetClimateConfigs
    /\ pc' = IF variant = "simple" THEN "defaults" ELSE "load"
    /\ UNCHANGED <<prog, variant, scenario_name, df_emissions, load_i, filled_log, load_warned,
                   allocated, run_count, results>>
    /\ UNCHANGED <<adjVars, interpVars, mainVars>>

\* lines 100-114 of run_fair_comparison.py: fill_species_configs() and the
\* climate parameters
FillDefaults ==
    /\ prog = "driver" /\ variant = "simple" /\ pc = "defaults"
    /\ baseline_concentration' = allocated.baseline
    /\ climate_configs' = ClimateValues
    /\ pc' = "load"
    /\ UNCHANGED <<prog, variant, scenario_name, loadVars, concentration, forcing, temperature,
                   cumulative_emissions, airborne_emissions, allocated, run_count, results>>
    /\ UNCHANGED <<adjVars, interpVars, mainVars>>

\* lines 224-227 of run_fair_comparison_proper.py: the climate parameters,
\* set after the emissions are loaded
SetClimateConfigs ==
    /\ prog = "driver" /\ variant = "proper" /\ pc = "climate"
    /\ climate_configs' = ClimateValues
    /\ pc' = "initialise"
    /\ UNCHANGED <<prog, variant, scenario_name, loadVars, stateVars, allocated, run_count, results>>
    /\ UNCHANGED <<adjVars, interpVars, mainVars>>

NextDriver ==
    \/ Configure \/ FillDefaults \/ SetClimateConfigs
    \/ LoadSpeciesSimple \/ LoadRowProper \/ LoadDone
    \/ InitialiseState \/ ZeroAll \/ InitConcentration \/ FixNaN
    \/ Run \/ Extract

(***************************************************************************)
(* Inputs of the driver: the emissions table, and what the engine holds    *)
(* when the driver starts to load and initialise                           *)
(***************************************************************************)
DenseYears == DriverStart..DriverEnd

\* the year columns of an emissions file: the interpolator's 1750..2023, a
\* file that starts a year early, and one that lacks the first and last year
DriverColumnChoices ==
    {DenseYears, (DriverStart - 1)..DriverEnd, (DriverStart + 1)..(DriverEnd - 1)}

DriverVariableChoices ==
    {<<"Emissions|CO2", "Emissions|CH4">>, <<"Emissions|CH4">>,
     <<"Emissions|NOx", "Emissions|CO2">>}

DriverUnitChoices == {"Mt CO2/yr", "GtCO2/yr"}

\* years whose cells are empty in the file
DriverNaNChoices == {{}, {DriverStart}}

\* every cell of row i holds a value of its own, 10 * year + i
DriverTable(variables, columns, nan_years, co2_unit) ==
    [columns |-> columns,
     rows |-> [i \in DOMAIN variables |->
                [Scenario |-> "ssp245", Variable |-> variables[i],
                 Unit |-> IF variables[i] = CO2Variable THEN co2_unit ELSE "Mt/yr",
                 cells |-> [y \in columns |->
                              IF y \in nan_years THEN NaN ELSE Num(10 * y + i)]]]]

DriverTables ==
    {DriverTable(vs, cs, ns, u) :
        vs \in DriverVariableChoices, cs \in DriverColumnChoices,
        ns \in DriverNaNChoices, u \in DriverUnitChoices}

\* what fill_species_configs() or the engine's defaults provide as baseline
EngineBaseline(sp) ==
    CASE sp = "CO2" -> Num(280)
      [] sp = "CH4" -> Num(730)
      [] sp = "N2O" -> Num(271)
      [] OTHER -> Num(1)

BaselineChoices(v) ==
    {[sp \in SpeciesOf(v) |-> IF sp \in provided THEN EngineBaseline(sp) ELSE NaN] :
        provided \in SUBSET {"CO2", "CH4", "N2O", "Sulfur"}}

PreContentChoices == {NaN, Num(5)}

\* the driver at its entry: the engine does not exist yet; allocated is what
\* it will put into its arrays (pre) and provide as baseline
InitDriverWith(v, table, pre, baseline) ==
    /\ prog = "driver" /\ pc = "configure"
    /\ variant = v
    /\ scenario_name = "baseline_ssp245"
    /\ df_emissions = table
    /\ load_i = 1
    /\ emissions = <<>>
    /\ filled_log = <<>>
    /\ load_warned = <<>>
    /\ baseline_concentration = <<>>
    /\ allocated = [first |-> pre.first, rest |-> pre.rest, conc |-> pre.conc,
                    baseline |-> baseline]
    /\ climate_configs = <<>>
    /\ concentration = <<>>
    /\ forcing = <<>>
    /\ temperature = <<>>
    /\ cumulative_emissions = <<>>
    /\ airborne_emissions = <<>>
    /\ run_count = 0
    /\ results = <<>>
    /\ IdleAdjust
    /\ IdleInterp
    /\ IdleMain

AllNaN == [first |-> NaN, rest |-> NaN, conc |-> NaN]

\* every emissions table, on a freshly allocated engine
InitDriverTables ==
    \E v \in {"simple", "proper"}, table \in DriverTables :
        InitDriverWith(v, table, AllNaN,
                       [sp \in SpeciesOf(v) |->
                           IF sp \in {"CO2", "CH4", "N2O"} THEN EngineBaseline(sp) ELSE NaN])

\* every content of the state arrays and every baseline, on the dense table
InitDriverStates ==
    \E v \in {"simple", "proper"}, a \in PreContentChoices, b \in PreContentChoices,
       c \in PreContentChoices :
        \E baseline \in BaselineChoices(v) :
            InitDriverWith(v,
                           DriverTable(<<"Emissions|CO2", "Emissions|CH4">>, DenseYears,
                                       {}, "Mt CO2/yr"),
                           [first |-> a, rest |-> b, conc |-> c], baseline)

InitDriver == InitDriverTables \/ InitDriverStates

SpecDriver == InitDriver /\ [][NextDriver]_vars

(***************************************************************************)
(* Properties of the driver                                                *)
(***************************************************************************)
\* the species the simple variant has loaded so far, each with its table row
LoadedSimple ==
    {m \in 1..(load_i - 1) : m \in DOMAIN VariableMapping
                             /\ RowsOf(df_emissions, VariableMapping[m].csv_var) # {}}

SpeciesRow(m) == df_emissions.rows[Min(RowsOf(df_emissions, VariableMapping[m].csv_var))]

\* the index of the timepoint year + 0.5 when the engine has that timepoint
\* (0 when it has not)
IndexOfYear(year) ==
    LET k == year - DriverStart + 1
    IN IF k \in DOMAIN TimePoints /\ TimePoints[k] = 2 * year + 1 THEN k ELSE 0

\* C6: in the simple variant, for every loaded species and every year column y
\* whose timepoint y + 0.5 is one of the engine's, the emissions at that
\* timepoint's index are the cell of year y unchanged when the cell is not
\* missing; and every index that was written holds the cell of the year of
\* its own timepoint, never that of another year.
C6_ExactMatchRoundTrip ==
    (prog = "driver" /\ variant = "simple") =>
        \A m \in LoadedSimple :
            LET sp  == VariableMapping[m].fair_species
                row == SpeciesRow(m)
            IN /\ \A y \in df_emissions.columns :
                    (IndexOfYear(y) # 0 /\ ~IsNaN(row.cells[y])) =>
                        emissions[sp][IndexOfYear(y)] = row.cells[y]
               /\ \A k \in DOMAIN TimePoints :
                    emissions[sp][k] # AllocatedEmissions("simple")[sp][k] =>
                        LET y == (TimePoints[k] - 1) \div 2
                        IN /\ y \in df_emissions.columns
                           /\ 2 * y + 1 = TimePoints[k]
                           /\ emissions[sp][k] = NanToNum(row.cells[y])

\* the simple variant has loaded CO2 from a file with the columns 1749..2023:
\* 1749 and 2023 have no timepoint, the years between them have one
C6_Witness ==
    /\ prog = "driver" /\ variant = "simple" /\ pc = "initialise"
    /\ df_emissions.columns = (DriverStart - 1)..DriverEnd
    /\ \E m \in LoadedSimple :
          /\ VariableMapping[m].fair_species = "CO2"
          /\ emissions["CO2"][1] = SpeciesRow(m).cells[DriverStart]
          /\ emissions["CO2"][Len(TimePoints)] = SpeciesRow(m).cells[DriverEnd - 1]

\* the value a variant loads for a cell
LoadedValue(v, sp, unit, c) == IF v = "simple" THEN NanToNum(c) ELSE ConvertUnits(sp, unit, c)

\* the species of a table row in a variant, and whether the variant loads it
RowSpecies(v, row) ==
    IF v = "simple"
    THEN {VariableMapping[m].fair_species : m \in {n \in DOMAIN VariableMapping :
                                                      VariableMapping[n].csv_var = row.Variable}}
    ELSE {FairSpeciesMap(row.Variable)} \cap EngineSpecies

\* C7: once the table is loaded, every year of the horizon 1750..2023 has
\* exactly one timepoint of the engine and every timepoint one year of the
\* horizon, and the value of every horizon year of a loaded row is in the
\* emissions at the index of its timepoint.
C7_TimelineBijection ==
    (prog = "driver" /\ pc \notin {"configure", "defaults", "load"}) =>
        /\ \A y \in DenseYears : IndexOfYear(y) # 0
        /\ \A k \in DOMAIN TimePoints : (TimePoints[k] - 1) \div 2 \in DenseYears
        /\ \A i \in DOMAIN df_emissions.rows :
              \A sp \in RowSpecies(variant, df_emissions.rows[i]) :
                 \A y \in DenseYears \cap df_emissions.columns :
                    /\ IndexOfYear(y) # 0
                    /\ emissions[sp][IndexOfYear(y)] =
                          LoadedValue(variant, sp, df_emissions.rows[i].Unit,
                                      df_emissions.rows[i].cells[y])

\* the number of year columns without a timepoint of the engine
SkippedYears == Cardinality({y \in df_emissions.columns : IndexOfYear(y) = 0})

\* C8: when years of a species were skipped in the simple variant, the
\* diagnostic line of that species reports their number.
C8_SkippedReported ==
    (prog = "driver" /\ variant = "simple") =>
        \A i \in DOMAIN filled_log :
            SkippedYears > 0 =>
                \E field \in DOMAIN filled_log[i] \ {"species"} :
                    filled_log[i][field] = SkippedYears

\* every entry of a state array is exactly zero
AllZero(array) == \A c \in DOMAIN array : \A k \in DOMAIN array[c] : array[c][k] = Num(0)

\* C9: when run() is about to be called, in both variants, the forcing, the
\* temperature, the cumulative emissions and the airborne emissions are zero
\* at every timebound, whatever they held before the initialisation.
C9_StateZeroAtRun ==
    (prog = "driver" /\ pc = "run") =>
        /\ AllZero(forcing)
        /\ AllZero(temperature)
        /\ AllZero(cumulative_emissions)
        /\ AllZero(airborne_emissions)

\* the proper variant about to call run(), on arrays that held 5 after the
\* first timebound before the initialisation
C9_Witness ==
    /\ prog = "driver" /\ pc = "run" /\ variant = "proper"
    /\ allocated.rest = Num(5)
    /\ forcing["CH4"][Len(TimeBounds)] = Num(0)
    /\ temperature[0][Len(TimeBounds)] = Num(0)

\* the value of the stated policy for a species
PolicyConcentration(sp, baseline_value) ==
    IF ~IsNaN(baseline_value) THEN baseline_value
    ELSE CASE sp = "CO2" -> Num(278)
           [] sp = "CH4" -> Rat(7292, 10)
           [] sp = "N2O" -> Num(270)
           [] OTHER -> Num(0)

\* C10: when run() is about to be called, in both variants, the concentration
\* of every species at every timebound is the engine's baseline when that is
\* not NaN, else 278 for CO2, 729.2 for CH4, 270 for N2O, else zero.
C10_ConcentrationPolicy ==
    (prog = "driver" /\ pc = "run") =>
        \A sp \in SpeciesOf(variant) :
            \A k \in DOMAIN concentration[sp] :
                concentration[sp][k] = PolicyConcentration(sp, baseline_concentration[sp])

\* a NaN in one of the five state arrays
NaNInState ==
    \/ HasNaN(concentration) \/ HasNaN(forcing) \/ HasNaN(temperature)
    \/ HasNaN(cumulative_emissions) \/ HasNaN(airborne_emissions)

\* C11: the engine's run() is never invoked while a state array (the
\* concentration, the forcing, the temperature, the cumulative or the
\* airborne emissions) holds a NaN: the driver aborts instead.
C11_NoRunWithNaN == [][Run => ~NaNInState]_vars

\* the loading loop has visited every entry
LoadFinished ==
    load_i > (IF variant = "simple" THEN Len(VariableMapping) ELSE Len(df_emissions.rows))

\* a step of one of the six responsibilities of the driver
StepConfigure == Configure

StepParameters == FillDefaults \/ SetClimateConfigs

StepLoad == LoadSpeciesSimple \/ LoadRowProper

StepInitialise == InitialiseState \/ ZeroAll \/ InitConcentration \/ FixNaN

\* C12: in every invocation the steps come in the order configuration and
\* allocation, defaults and physical parameters, loading of the emissions,
\* initialisation of the state, run(), extraction; run() is executed exactly
\* once; and between the last initialisation step and run() no emissions or
\* state array is written.
C12_Ordering ==
    [][/\ StepParameters => (emissions # <<>> /\ load_i = 1)
       /\ StepLoad => (emissions # <<>> /\ climate_configs = ClimateValues)
       /\ StepInitialise => (LoadFinished /\ climate_configs = ClimateValues /\ run_count = 0)
       /\ Run => (LoadFinished /\ temperature[0][1] = Num(0) /\ run_count = 0)
       /\ Extract => run_count = 1
       /\ results' # <<>> => run_count' = 1
       /\ (pc = "run" /\ ~Run) => UNCHANGED <<emissions, stateVars>>]_vars

(***************************************************************************)
(* ScenarioComparator: compare_scenarios of run_fair_comparison.py and     *)
(* create_comparison of run_fair_comparison_proper.py (the same code)      *)
(***************************************************************************)
\* baseline - counterfactual, element by element
DiffReversed(counterfactual_series, baseline_series) ==
    [i \in DOMAIN baseline_series |-> Sub(baseline_series[i], counterfactual_series[i])]

\* counterfactual - baseline, element by element (arrays of one shape)
Diff(counterfactual_series, baseline_series) ==
    [i \in DOMAIN baseline_series |-> Sub(counterfactual_series[i], baseline_series[i])]

RECURSIVE MaxRange(_, _, _)
\* the greatest of a[lo..hi], none of them NaN
MaxRange(a, lo, hi) ==
    IF lo = hi THEN a[lo]
    ELSE LET mid   == (lo + hi) \div 2
             left  == MaxRange(a, lo, mid)
             right == MaxRange(a, mid + 1, hi)
         IN IF Geq(left, right) THEN left ELSE right

\* np.max(a): NaN when an element is NaN
NpMax(a) == IF \E i \in DOMAIN a : IsNaN(a[i]) THEN NaN ELSE MaxRange(a, 1, Len(a))

RECURSIVE SumRange(_, _, _)
\* np.sum(a): pairwise summation
SumRange(a, lo, hi) ==
    IF lo > hi THEN Num(0)
    ELSE IF lo = hi THEN a[lo]
    ELSE LET mid == (lo + hi) \div 2
         IN Add(SumRange(a, lo, mid), SumRange(a, mid + 1, hi))

NpSum(a) == SumRange(a, 1, Len(a))

\* x[-1]
Last(a) == a[Len(a)]

\* the shapes (n,) and (m,) of two numpy arrays can be broadcast together
Broadcastable(a, b) == Len(a) = Len(b) \/ Len(a) = 1 \/ Len(b) = 1

\* a - b of two numpy arrays that can be broadcast together: an array of
\* one element stands for its element at every index
NpSubtract(a, b) ==
    IF Len(a) = Len(b) THEN Diff(a, b)
    ELSE [i \in 1..(IF Len(a) = 1 THEN Len(b) ELSE Len(a)) |->
             Sub(a[IF Len(a) = 1 THEN 1 ELSE i], b[IF Len(b) = 1 THEN 1 ELSE i])]

\* lines 254-270 of run_fair_comparison.py, 463-479 of ..._proper.py
Comparison(baseline, counterfactual) ==
    LET temp_diff      == NpSubtract(counterfactual.temperature, baseline.temperature)
        co2_diff       == NpSubtract(counterfactual.co2_concentration,
                                     baseline.co2_concentration)
        emissions_diff == NpSubtract(counterfactual.emissions, baseline.emissions)
    IN [temp_diff_2023 |-> Last(temp_diff),
        co2_diff_2023 |-> Last(co2_diff),
        max_temp_diff |-> NpMax(temp_diff),
        max_co2_diff |-> NpMax(co2_diff),
        cumulative_emissions_diff |-> NpSum(emissions_diff),
        temp_diff_series |-> temp_diff,
        co2_diff_series |-> co2_diff,
        emissions_diff_series |-> emissions_diff,
        years |-> baseline.years]

\* the subtraction of two arrays that cannot be broadcast together raises
\* ValueError
CompareScenarios ==
    /\ prog = "compare" /\ pc = "start"
    /\ IF /\ Broadcastable(counterfactual_results[1].temperature,
                           baseline_results[1].temperature)
          /\ Broadcastable(counterfactual_results[1].co2_concentration,
                           baseline_results[1].co2_concentration)
          /\ Broadcastable(counterfactual_results[1].emissions,
                           baseline_results[1].emissions)
       THEN /\ comparison' =
                  <<Comparison(baseline_results[1], counterfactual_results[1])>>
            /\ pc' = "done"
       ELSE /\ pc' = "raised"
            /\ UNCHANGED comparison
    /\ UNCHANGED <<prog, main_pc, baseline_file, counterfactual_file, baseline_results,
                   counterfactual_results, pipeVars>>
    /\ UNCHANGED <<adjVars, interpVars, driverVars>>

NextCompare == CompareScenarios

\* the results handed to the comparison: series of one length over a few
\* values, NaN among them
MaxSeriesLen == 2

SeriesValues == {NaN, Num(1), Rat(-1, 2)}

SeriesOfLen(n) == [1..n -> SeriesValues]

InitCompare ==
    /\ prog = "compare" /\ pc = "start"
    /\ main_pc = "none"
    /\ baseline_file = NoTable
    /\ counterfactual_file = NoTable
    /\ \E n \in 1..MaxSeriesLen :
          \E a \in SeriesOfLen(n), b \in SeriesOfLen(n), c \in SeriesOfLen(n) :
             /\ baseline_results =
                   <<[temperature |-> a, co2_concentration |-> b, emissions |-> c,
                      years |-> [k \in 1..n |-> 2 * (DriverStart + k - 1)]]>>
             /\ counterfactual_results =
                   <<[temperature |-> b, co2_concentration |-> c, emissions |-> a,
                      years |-> [k \in 1..n |-> 2 * (DriverStart + k - 1)]]>>
    /\ comparison = <<>>
    /\ execution = 0
    /\ first_execution = <<>>
    /\ running = "none" /\ suspended = <<>> /\ interleaved_results = <<>>
    /\ results_csv = <<>>
    /\ custom_series = <<>> /\ fair_length = 0 /\ written_series = <<>>
    /\ IdleAdjust
    /\ IdleInterp
    /\ IdleDriver

SpecCompare == InitCompare /\ [][NextCompare]_vars

\* the greatest element of a series without NaN
IsMaxOf(m, series) ==
    /\ \E i \in DOMAIN series : series[i] = m
    /\ \A i \in DOMAIN series : Geq(m, series[i])

\* C13: every difference series is counterfactual minus baseline at every
\* index; the 2023 summaries are the last elements of the temperature and the
\* CO2 difference, the maximum summaries their greatest elements (NaN, as
\* np.max gives, when an element is NaN), and the cumulative emissions
\* difference is the sum of the emissions difference over all indices.
C13_ComparatorResult ==
    comparison # <<>> =>
        LET b == baseline_results[1]
            c == counterfactual_results[1]
            r == comparison[1]
            n == Len(b.temperature)
        IN /\ \A i \in 1..n :
                /\ r.temp_diff_series[i] = Sub(c.temperature[i], b.temperature[i])
                /\ r.co2_diff_series[i] = Sub(c.co2_concentration[i], b.co2_concentration[i])
           /\ \A i \in DOMAIN b.emissions :
                r.emissions_diff_series[i] = Sub(c.emissions[i], b.emissions[i])
           /\ r.temp_diff_2023 = r.temp_diff_series[n]
           /\ r.co2_diff_2023 = r.co2_diff_series[n]
           /\ IF \E i \in 1..n : IsNaN(r.temp_diff_series[i])
              THEN IsNaN(r.max_temp_diff)
              ELSE IsMaxOf(r.max_temp_diff, r.temp_diff_series)
           /\ IF \E i \in 1..n : IsNaN(r.co2_diff_series[i])
              THEN IsNaN(r.max_co2_diff)
              ELSE IsMaxOf(r.max_co2_diff, r.co2_diff_series)
           /\ r.cumulative_emissions_diff =
                 SetSum(r.emissions_diff_series, DOMAIN r.emissions_diff_series)

\* a comparison of two-year results whose greatest temperature difference is
\* at the first year, not at the last
C13_Witness ==
    /\ prog = "compare" /\ main_pc = "none" /\ comparison # <<>>
    /\ comparison[1].temp_diff_series = <<Rat(3, 2), Rat(-3, 2)>>
    /\ comparison[1].max_temp_diff = Rat(3, 2)
    /\ comparison[1].temp_diff_2023 = Rat(-3, 2)
    /\ comparison[1].cumulative_emissions_diff = Rat(3, 2)

(***************************************************************************)
(* main of run_fair_comparison.py (lines 369-397) and of                   *)
(* run_fair_comparison_proper.py (lines 686-720): the baseline run, the    *)
(* counterfactual run, the comparison                                      *)
(***************************************************************************)
\* run_fair_scenario(emissions_file, name) is entered: f = FAIR() is a new
\* engine, local to the call
CallScenario(emissions_file, name) ==
    /\ prog' = "driver" /\ pc' = "configure"
    /\ scenario_name' = name
    /\ df_emissions' = emissions_file
    /\ load_i' = 1
    /\ emissions' = <<>>
    /\ filled_log' = <<>>
    /\ load_warned' = <<>>
    /\ baseline_concentration' = <<>>
    /\ climate_configs' = <<>>
    /\ concentration' = <<>>
    /\ forcing' = <<>>
    /\ temperature' = <<>>
    /\ cumulative_emissions' = <<>>
    /\ airborne_emissions' = <<>>
    /\ run_count' = 0
    /\ results' = <<>>
    /\ UNCHANGED <<variant, allocated>>

\* the tests of lines 382-385 were they left out
FilesUnchecked == TRUE

\* lines 382-385: Path(baseline_file).exists() and
\* Path(counterfactual_file).exists(); NoTable stands for a path without file
FilesExist == baseline_file # NoTable /\ counterfactual_file # NoTable

\* baseline_results = run_fair_scenario(baseline_file, "baseline_ssp245")
RunBaseline ==
    /\ prog = "main" /\ main_pc = "start"
    /\ FilesExist
    /\ CallScenario(baseline_file, "baseline_ssp245")
    /\ main_pc' = "baseline"
    /\ UNCHANGED <<baseline_file, counterfactual_file, baseline_results,
                   counterfactual_results, comparison, pipeVars>>
    /\ UNCHANGED <<adjVars, interpVars>>

\* the baseline run returns;
\* counterfactual_results = run_fair_scenario(counterfactual_file, "counterfactual_1975")
RunCounterfactual ==
    /\ prog = "driver" /\ pc = "done" /\ main_pc = "baseline"
    /\ baseline_results' = results
    /\ CallScenario(counterfactual_file, "counterfactual_1975")
    /\ main_pc' = "counterfactual"
    /\ UNCHANGED <<baseline_file, counterfactual_file, counterfactual_results, comparison,
                   pipeVars>>
    /\ UNCHANGED <<adjVars, interpVars>>

\* the counterfactual run returns; compare_scenarios is entered
EnterComparison ==
    /\ prog = "driver" /\ pc = "done" /\ main_pc = "counterfactual"
    /\ counterfactual_results' = results
    /\ prog' = "compare" /\ pc' = "start"
    /\ main_pc' = "compare"
    /\ UNCHANGED <<baseline_file, counterfactual_file, baseline_results, comparison,
                   pipeVars>>
    /\ UNCHANGED <<adjVars, interpVars, driverVars>>

\* the columns of the exported table (lines 350-361 of run_fair_comparison.py,
\* 537-548 of ..._proper.py)
ExportColumns ==
    [Year |-> baseline_results[1].years,
     Baseline_Temperature |-> baseline_results[1].temperature,
     Counterfactual_Temperature |-> counterfactual_results[1].temperature,
     Temperature_Difference |-> comparison[1].temp_diff_series,
     Baseline_CO2 |-> baseline_results[1].co2_concentration,
     Counterfactual_CO2 |-> counterfactual_results[1].co2_concentration,
     CO2_Difference |-> comparison[1].co2_diff_series,
     Baseline_Emissions |-> baseline_results[1].emissions,
     Counterfactual_Emissions |-> counterfactual_results[1].emissions,
     Emissions_Difference |-> comparison[1].emissions_diff_series]

\* pd.DataFrame(dict of arrays) raises ValueError unless all arrays have one
\* length (as does the plot of a series against years of another length)
SameLength(columns) ==
    \A c, d \in DOMAIN columns : Len(columns[c]) = Len(columns[d])

\* create_visualizations: the plots, then the table written with to_csv
CreateVisualizations ==
    /\ prog = "compare" /\ pc = "done" /\ main_pc = "compare"
    /\ prog' = "visualize"
    /\ main_pc' = "visualize"
    /\ IF SameLength(ExportColumns)
       THEN /\ results_csv' = <<ExportColumns>>
            /\ pc' = "done"
       ELSE /\ pc' = "raised"
            /\ UNCHANGED results_csv
    /\ UNCHANGED <<baseline_file, counterfactual_file, baseline_results,
                   counterfactual_results, comparison, execution, first_execution,
                   runVars, fitVars>>
    /\ UNCHANGED <<adjVars, interpVars, driverVars>>

NextMain ==
    \/ RunBaseline \/ RunCounterfactual \/ EnterComparison \/ NextDriver \/ NextCompare
    \/ CreateVisualizations

\* the two emissions files: the baseline with every variable or with CO2 and
\* CH4 only, the counterfactual equal to it (no adjustment was applied) or
\* with one year of CO2 adjusted
AllVariables == [m \in DOMAIN VariableMapping |-> VariableMapping[m].csv_var]

MainVariableChoices == {AllVariables, <<"Emissions|CO2", "Emissions|CH4">>}

MainBaselineFiles ==
    {DriverTable(vs, DenseYears, {}, "Mt CO2/yr") : vs \in MainVariableChoices}

MainCounterfactualFiles(table) == {table, AddToColumn(table, WindowStart, Num(-2000))}

\* main is entered with what is at the paths of the two files
InitMainOn(baseline_table, counterfactual_table) ==
    /\ prog = "main" /\ pc = "start" /\ main_pc = "start"
    /\ variant \in {"simple", "proper"}
    /\ baseline_file = baseline_table
    /\ counterfactual_file = counterfactual_table
    /\ allocated \in {[first |-> p, rest |-> p, conc |-> p,
                       baseline |-> [sp \in SpeciesOf(variant) |->
                                        IF sp \in provided THEN EngineBaseline(sp) ELSE NaN]] :
                         p \in PreContentChoices,
                         provided \in {{}, {"CO2", "CH4", "N2O"}}}
    /\ scenario_name = "none"
    /\ df_emissions = NoTable
    /\ load_i = 0
    /\ emissions = <<>>
    /\ filled_log = <<>>
    /\ load_warned = <<>>
    /\ baseline_concentration = <<>>
    /\ climate_configs = <<>>
    /\ concentration = <<>>
    /\ forcing = <<>>
    /\ temperature = <<>>
    /\ cumulative_emissions = <<>>
    /\ airborne_emissions = <<>>
    /\ run_count = 0
    /\ results = <<>>
    /\ baseline_results = <<>>
    /\ counterfactual_results = <<>>
    /\ comparison = <<>>
    /\ execution = 0
    /\ first_execution = <<>>
    /\ running = "none" /\ suspended = <<>> /\ interleaved_results = <<>>
    /\ results_csv = <<>>
    /\ custom_series = <<>> /\ fair_length = 0 /\ written_series = <<>>
    /\ IdleAdjust
    /\ IdleInterp

InitMain ==
    \E baseline_table \in MainBaselineFiles :
        \E counterfactual_table \in MainCounterfactualFiles(baseline_table) :
            InitMainOn(baseline_table, counterfactual_table)

SpecMain == InitMain /\ [][NextMain]_vars

\* every element of a series is exactly zero
ZeroSeries(series) == \A i \in DOMAIN series : series[i] = Num(0)

\* C14: when no adjustment was applied, so that the counterfactual file
\* equals the baseline file, the comparison of the two runs has a zero
\* temperature, CO2 and emissions difference at every year and zero 2023,
\* maximum and cumulative summaries, although the scenario names differ.
C14_ZeroDifference ==
    (main_pc = "compare" /\ comparison # <<>> /\ counterfactual_file = baseline_file) =>
        /\ ZeroSeries(comparison[1].temp_diff_series)
        /\ ZeroSeries(comparison[1].co2_diff_series)
        /\ ZeroSeries(comparison[1].emissions_diff_series)
        /\ comparison[1].temp_diff_2023 = Num(0)
        /\ comparison[1].co2_diff_2023 = Num(0)
        /\ comparison[1].max_temp_diff = Num(0)
        /\ comparison[1].max_co2_diff = Num(0)
        /\ comparison[1].cumulative_emissions_diff = Num(0)

(***************************************************************************)
(* The pipeline: interpolate_emissions.py, then                            *)
(* create_counterfactual_interpolated.py, then main of the driver, run     *)
(* again on the same inputs.  The scripts share the files on disk only.    *)
(***************************************************************************)
MaxExecutions == 2

\* pd.read_csv(interpolated_file) would read the adjuster's own output
OwnOutputRead == IF output_csv # <<>> THEN output_csv[1] ELSE interpolated_csv[1]

\* line 67-68 of create_counterfactual_interpolated.py:
\* pd.read_csv("inputs/emissions_ssp245_interpolated.csv")
InterpolatedFileRead == interpolated_csv[1]

\* the interpolator has written its file; the adjuster is started
StartAdjuster ==
    /\ execution > 0 /\ prog = "interp" /\ pc = "done"
    /\ prog' = "adjust" /\ pc' = "start"
    /\ df_interpolated' = InterpolatedFileRead
    /\ UNCHANGED <<df_excel, adjustment_data, df_counterfactual, adj_i, warned,
                   output_csv, summary>>
    /\ UNCHANGED <<interpVars, driverVars, mainVars>>

\* the adjuster has written its file; main is started and finds both files
\* (lines 378-385 of run_fair_comparison.py)
StartMain ==
    /\ execution > 0 /\ prog = "adjust" /\ pc = "done"
    /\ prog' = "main" /\ pc' = "start"
    /\ main_pc' = "start"
    /\ baseline_file' = interpolated_csv[1]
    /\ counterfactual_file' = output_csv[1]
    /\ UNCHANGED <<baseline_results, counterfactual_results, comparison, pipeVars>>
    /\ UNCHANGED <<adjVars, interpVars, driverVars>>

\* the pipeline is run again: every script starts afresh, the inputs are
\* the same, the files of the execution before are still on disk
StartNextExecution ==
    /\ execution > 0 /\ execution < MaxExecutions
    /\ prog = "visualize"
    /\ execution' = execution + 1
    /\ first_execution' =
          IF first_execution = <<>>
          THEN <<[interpolated_csv |-> interpolated_csv, output_csv |-> output_csv,
                  comparison |-> comparison]>>
          ELSE first_execution
    /\ prog' = "interp" /\ pc' = "start"
    /\ year_cols' = <<>> /\ interpolated_data' = <<>> /\ interp_i' = 0
    /\ sparse_warned' = <<>>
    /\ df_interpolated' = NoTable /\ adjustment_data' = <<>>
    /\ df_counterfactual' = NoTable /\ adj_i' = 0 /\ warned' = <<>> /\ summary' = <<>>
    /\ scenario_name' = "none" /\ df_emissions' = NoTable /\ load_i' = 0
    /\ emissions' = <<>> /\ filled_log' = <<>> /\ load_warned' = <<>>
    /\ baseline_concentration' = <<>> /\ climate_configs' = <<>>
    /\ concentration' = <<>> /\ forcing' = <<>> /\ temperature' = <<>>
    /\ cumulative_emissions' = <<>> /\ airborne_emissions' = <<>>
    /\ run_count' = 0 /\ results' = <<>>
    /\ main_pc' = "none" /\ baseline_file' = NoTable /\ counterfactual_file' = NoTable
    /\ baseline_results' = <<>> /\ counterfactual_results' = <<>> /\ comparison' = <<>>
    /\ UNCHANGED <<df_baseline, interpolated_csv, df_excel, output_csv, variant, allocated,
                   runVars, results_csv, fitVars>>

NextPipeline ==
    \/ NextInterp \/ StartAdjuster \/ NextAdjust \/ StartMain \/ NextMain
    \/ StartNextExecution

\* inputs/emissions_ssp245.csv: every variable or CO2 and CH4 only, known at
\* 1850 and 2000
PipelineRawTables ==
    {[columns |-> {1850, 2000},
      rows |-> [i \in DOMAIN vs |->
                 [Scenario |-> "ssp245", Variable |-> vs[i], Unit |-> "Mt/yr",
                  cells |-> [y \in {1850, 2000} |-> Num(y - 1850 + 100 * i)]]]] :
        vs \in MainVariableChoices}

\* the workbook: no row, or one row of the window
PipelineWorkbooks ==
    {<<>>, <<[Z |-> NumCell(WindowStart), AA |-> NumCell(20), AC |-> NumCell(18)]>>}

\* what an earlier execution, on other inputs, may have left at the paths of
\* the two written files
LeftBehind ==
    {<<>>,
     <<[columns |-> FullYearRange,
        rows |-> <<[Scenario |-> "ssp245", Variable |-> CO2Variable,
                    Unit |-> "Mt CO2/yr",
                    cells |-> [y \in FullYearRange |-> Num(7)]]>>]>>}

InitPipeline ==
    /\ prog = "interp" /\ pc = "start"
    /\ execution = 1
    /\ first_execution = <<>>
    /\ running = "none" /\ suspended = <<>> /\ interleaved_results = <<>>
    /\ results_csv = <<>>
    /\ custom_series = <<>> /\ fair_length = 0 /\ written_series = <<>>
    /\ df_baseline \in PipelineRawTables
    /\ df_excel \in PipelineWorkbooks
    /\ interpolated_csv \in LeftBehind
    /\ output_csv = interpolated_csv
    /\ variant \in {"simple", "proper"}
    /\ allocated = [first |-> NaN, rest |-> NaN, conc |-> NaN,
                    baseline |-> [sp \in SpeciesOf(variant) |->
                                     IF sp \in {"CO2", "CH4", "N2O"}
                                     THEN EngineBaseline(sp) ELSE NaN]]
    /\ year_cols = <<>> /\ interpolated_data = <<>> /\ interp_i = 0
    /\ sparse_warned = <<>>
    /\ df_interpolated = NoTable /\ adjustment_data = <<>>
    /\ df_counterfactual = NoTable /\ adj_i = 0 /\ warned = <<>> /\ summary = <<>>
    /\ scenario_name = "none" /\ df_emissions = NoTable /\ load_i = 0
    /\ emissions = <<>> /\ filled_log = <<>> /\ load_warned = <<>>
    /\ baseline_concentration = <<>> /\ climate_configs = <<>>
    /\ concentration = <<>> /\ forcing = <<>> /\ temperature = <<>>
    /\ cumulative_emissions = <<>> /\ airborne_emissions = <<>>
    /\ run_count = 0 /\ results = <<>>
    /\ main_pc = "none" /\ baseline_file = NoTable /\ counterfactual_file = NoTable
    /\ baseline_results = <<>> /\ counterfactual_results = <<>> /\ comparison = <<>>

SpecPipeline == InitPipeline /\ [][NextPipeline]_vars

\* C15: a later execution of the pipeline on the same inputs writes the same
\* interpolated file and the same counterfactual file and computes the same
\* comparison as the first execution, whatever the first execution found on
\* disk and although the later one finds the files of the one before.
C15_PipelineDeterminism ==
    (execution > 1) =>
        /\ (prog = "interp" /\ pc = "done") =>
              interpolated_csv = first_execution[1].interpolated_csv
        /\ (prog = "adjust" /\ pc = "done") =>
              output_csv = first_execution[1].output_csv
        /\ comparison # <<>> => comparison = first_execution[1].comparison

\* a second execution has computed its comparison, after a first execution
\* that applied an adjustment and had found files of another run on disk
C15_Witness ==
    /\ execution = 2 /\ comparison # <<>>
    /\ df_excel # <<>>
    /\ first_execution[1].output_csv # first_execution[1].interpolated_csv
    /\ first_execution[1].comparison[1].cumulative_emissions_diff = Num(-2000)

(***************************************************************************)
(* The two calls of run_fair_scenario executed in the other order or       *)
(* interleaved, after main has executed them one after the other           *)
(***************************************************************************)
\* an array of the engine object were f one object of the module
SharedArray(own, current) == current

\* line 42 of run_fair_comparison.py, 38 of ..._proper.py: f = FAIR() is a
\* local variable of the call, so the call finds its own array
InstanceArray(own, current) == own

FileOf(run) == IF run = "baseline" THEN baseline_file ELSE counterfactual_file

NameOf(run) == IF run = "baseline" THEN "baseline_ssp245" ELSE "counterfactual_1975"

OtherRun(run) == IF run = "baseline" THEN "counterfactual" ELSE "baseline"

\* the local variables of a call that has just been entered
EnteredCall(run) ==
    [pc |-> "configure", scenario_name |-> NameOf(run), df_emissions |-> FileOf(run),
     load_i |-> 1, emissions |-> <<>>, filled_log |-> <<>>, load_warned |-> <<>>,
     baseline_concentration |-> <<>>, climate_configs |-> <<>>,
     concentration |-> <<>>, forcing |-> <<>>, temperature |-> <<>>,
     cumulative_emissions |-> <<>>, airborne_emissions |-> <<>>,
     run_count |-> 0, results |-> <<>>]

\* the local variables of the call that is executing
ExecutingCall ==
    [pc |-> pc, scenario_name |-> scenario_name, df_emissions |-> df_emissions,
     load_i |-> load_i, emissions |-> emissions, filled_log |-> filled_log,
     load_warned |-> load_warned,
     baseline_concentration |-> baseline_concentration,
     climate_configs |-> climate_configs,
     concentration |-> concentration, forcing |-> forcing, temperature |-> temperature,
     cumulative_emissions |-> cumulative_emissions,
     airborne_emissions |-> airborne_emissions,
     run_count |-> run_count, results |-> results]

\* the call c goes on executing
Resume(c) ==
    /\ pc' = c.pc
    /\ scenario_name' = c.scenario_name
    /\ df_emissions' = c.df_emissions
    /\ load_i' = c.load_i
    /\ filled_log' = c.filled_log
    /\ load_warned' = c.load_warned
    /\ run_count' = c.run_count
    /\ results' = c.results
    /\ emissions' = InstanceArray(c.emissions, emissions)
    /\ baseline_concentration' = InstanceArray(c.baseline_concentration, baseline_concentration)
    /\ climate_configs' = InstanceArray(c.climate_configs, climate_configs)
    /\ concentration' = InstanceArray(c.concentration, concentration)
    /\ forcing' = InstanceArray(c.forcing, forcing)
    /\ temperature' = InstanceArray(c.temperature, temperature)
    /\ cumulative_emissions' = InstanceArray(c.cumulative_emissions, cumulative_emissions)
    /\ airborne_emissions' = InstanceArray(c.airborne_emissions, airborne_emissions)

\* both calls are entered again, either of them first (lines 387-391 in the
\* other order or at once)
StartInterleaved ==
    /\ prog = "driver" /\ pc = "done" /\ main_pc = "counterfactual"
    /\ counterfactual_results' = results
    /\ main_pc' = "interleaved"
    /\ \E first \in {"baseline", "counterfactual"} :
          /\ running' = first
          /\ CallScenario(FileOf(first), NameOf(first))
          /\ suspended' = <<EnteredCall(OtherRun(first))>>
    /\ interleaved_results' = [run \in {"baseline", "counterfactual"} |-> <<>>]
    /\ UNCHANGED <<baseline_file, counterfactual_file, baseline_results, comparison,
                   execution, first_execution, results_csv, fitVars>>
    /\ UNCHANGED <<adjVars, interpVars>>

\* the executing call is suspended between two of its steps and the other
\* call goes on
Switch ==
    /\ main_pc = "interleaved" /\ suspended # <<>> /\ pc # "done"
    /\ running' = OtherRun(running)
    /\ suspended' = <<ExecutingCall>>
    /\ Resume(suspended[1])
    /\ UNCHANGED <<prog, variant, allocated, interleaved_results>>
    /\ UNCHANGED <<main_pc, baseline_file, counterfactual_file, baseline_results,
                   counterfactual_results, comparison, execution, first_execution,
                   results_csv, fitVars>>
    /\ UNCHANGED <<adjVars, interpVars>>

\* the executing call returns its results; the other call, if it has not
\* returned, goes on
Return ==
    /\ main_pc = "interleaved" /\ pc = "done"
    /\ interleaved_results' = [interleaved_results EXCEPT ![running] = results]
    /\ IF suspended # <<>>
       THEN /\ running' = OtherRun(running)
            /\ Resume(suspended[1])
            /\ suspended' = <<>>
            /\ UNCHANGED main_pc
       ELSE /\ running' = "none"
            /\ main_pc' = "joined"
            /\ UNCHANGED <<pc, scenario_name, loadVars, stateVars, climate_configs,
                           run_count, results, suspended>>
    /\ UNCHANGED <<prog, variant, allocated>>
    /\ UNCHANGED <<baseline_file, counterfactual_file, baseline_results,
                   counterfactual_results, comparison, execution, first_execution,
                   results_csv, fitVars>>
    /\ UNCHANGED <<adjVars, interpVars>>

NextInterleaved ==
    \/ RunBaseline \/ RunCounterfactual \/ NextDriver
    \/ StartInterleaved \/ Switch \/ Return

\* a baseline file with every variable, a counterfactual file with one year
\* of CO2 adjusted, the engine providing the three baseline concentrations
InitInterleaved ==
    /\ InitMain
    /\ baseline_file = DriverTable(AllVariables, DenseYears, {}, "Mt CO2/yr")
    /\ counterfactual_file # baseline_file
    /\ allocated.first = NaN
    /\ ~IsNaN(allocated.baseline["CO2"])

SpecInterleaved == InitInterleaved /\ [][NextInterleaved]_vars

\* the engine arrays of a call
ArraysOf(c) ==
    <<c.emissions, c.baseline_concentration, c.climate_configs, c.concentration,
      c.forcing, c.temperature, c.cumulative_emissions, c.airborne_emissions>>

\* C16: each of the two calls of run_fair_scenario returns the same results
\* when the calls are executed in the other order or interleaved step by
\* step as when main executes the baseline call and then the counterfactual
\* call; no step of the executing call changes a variable of the suspended
\* one, and a call that goes on finds its arrays as it left them.
C16_RunIndependence ==
    [][/\ main_pc' = "joined" =>
             /\ interleaved_results'["baseline"] = baseline_results'
             /\ interleaved_results'["counterfactual"] = counterfactual_results'
       /\ NextDriver => UNCHANGED suspended
       /\ Switch => ArraysOf(ExecutingCall)' = ArraysOf(suspended[1])]_vars

\* both calls have returned after being executed together, the baseline call
\* first and the counterfactual call last, with results that differ
C16_Witness ==
    /\ main_pc = "joined"
    /\ scenario_name = "counterfactual_1975"
    /\ interleaved_results["counterfactual"] # interleaved_results["baseline"]
    /\ interleaved_results["baseline"] # <<>>

(***************************************************************************)
(* Errors of the adjuster                                                  *)
(***************************************************************************)
NoTargetRow ==
    \A i \in DOMAIN df_interpolated.rows :
        df_interpolated.rows[i].Variable # "Emissions|CO2"

\* C17: when the interpolated table has no row with Variable
\* 'Emissions|CO2', the adjuster raises before it applies any adjustment:
\* it never enters its loop, copies no table, and writes no output file and
\* no summary; and it raises in no other case.
C17_MissingTargetFatal ==
    /\ (prog = "adjust" /\ NoTargetRow) =>
          /\ pc \in {"start", "filtered", "raised"}
          /\ df_counterfactual = NoTable
          /\ adj_i = 0
          /\ output_csv = <<>>
          /\ summary = <<>>
    /\ (prog = "adjust" /\ pc = "raised") => NoTargetRow

\* the adjuster has raised on a table with a row of another variable, with
\* an adjustment in the window waiting to be applied
C17_Witness ==
    /\ prog = "adjust" /\ pc = "raised"
    /\ df_interpolated.rows # <<>>
    /\ adjustment_data # <<>>
    /\ output_csv = <<>>

(***************************************************************************)
(* Errors of the driver                                                    *)
(***************************************************************************)
\* the required variables that have no row in the emissions table
MissingVariables ==
    {m \in DOMAIN VariableMapping :
        \A i \in DOMAIN df_emissions.rows :
            df_emissions.rows[i].Variable # VariableMapping[m].csv_var}

\* C18: when the emissions table of run_fair_comparison.py's driver lacks the
\* row of a required variable, the driver aborts: the engine's run() is not
\* executed, and no run starts with the emissions of that species unset.
C18_MissingVariableFatal ==
    [][(Run /\ variant = "simple") => MissingVariables = {}]_vars

\* the engine counterparts of the six variables of the emissions file
RequiredSpecies ==
    {FairSpeciesMap(VariableMapping[m].csv_var) : m \in DOMAIN VariableMapping}

\* what read_properties() may lack: nothing, or one of the species that
\* run_fair_comparison_proper.py names in fair_species_map only
AbsentChoices == {{}, {"Sulfur"}, {"BC"}, {"OC"}}

\* the drivers, given a file with the six variables, on an engine whose
\* species list lacks a species; the simple variant writes its own species
\* list (lines 50-95)
InitEngine ==
    \E v \in {"simple", "proper"}, absent \in AbsentChoices, p \in PreContentChoices :
        /\ v = "simple" => absent = {}
        /\ InitDriverWith(v, DriverTable(AllVariables, DenseYears, {}, "Mt CO2/yr"),
                          [first |-> p, rest |-> p, conc |-> p],
                          [sp \in SpeciesOf(v) \ absent |->
                              IF sp \in {"CO2", "CH4", "N2O"}
                              THEN EngineBaseline(sp) ELSE NaN])

SpecEngine == InitEngine /\ [][NextDriver]_vars

\* C19: when the engine lacks the counterpart of one of the six variables,
\* the driver of run_fair_comparison_proper.py aborts: it does not skip the
\* species and execute the engine's run().
C19_MissingSpeciesFatal ==
    [][(Run /\ variant = "proper") => RequiredSpecies \subseteq EngineSpecies]_vars

(***************************************************************************)
(* Rows with fewer than two known points                                   *)
(***************************************************************************)
\* files of two rows, one of them at least with fewer than two values
SparseTables ==
    UNION {
        {t \in {[columns |-> cs,
                 rows |-> [i \in 1..2 |->
                            [Scenario |-> "ssp245", Variable |-> BaselineVariables[i],
                             Unit |-> "Mt/yr", cells |-> cells[i]]]] :
                   cells \in [1..2 -> [cs -> BaselineCells]]} :
            \E i \in 1..2 :
                Cardinality({y \in cs : t.rows[i].cells[y] # NaN}) < 2} :
        cs \in SUBSET BaselineYears}

InitSparse ==
    /\ prog = "interp" /\ pc = "start"
    /\ df_baseline \in SparseTables
    /\ year_cols = <<>>
    /\ interpolated_data = <<>>
    /\ interp_i = 0
    /\ sparse_warned = <<>>
    /\ interpolated_csv = <<>>
    /\ IdleAdjust
    /\ IdleDriver
    /\ IdleMain

SpecSparse == InitSparse /\ [][NextInterp]_vars

DeltaYears == {y \in 1976..2023 : \E k \in RefRowsOf(y) : BothValues(k)}

\* C21: a window year with a delta and no column in the target table is
\* skipped with a warning and gets no column; only such years are warned
\* of; every other window year with a delta is adjusted, and the output
\* table is written.
C21_SkippedYear ==
    (prog = "adjust" /\ pc = "done") =>
        /\ output_csv # <<>>
        /\ output_csv[1].columns = df_interpolated.columns
        /\ \A y \in DeltaYears \ df_interpolated.columns :
              /\ \E w \in DOMAIN warned : warned[w] = y
              /\ \A i \in DOMAIN output_csv[1].rows :
                    y \notin DOMAIN output_csv[1].rows[i].cells
        /\ \A w \in DOMAIN warned :
              warned[w] \in DeltaYears \ df_interpolated.columns
        /\ \A y \in DeltaYears \cap df_interpolated.columns :
              \A i \in DOMAIN df_interpolated.rows :
                  df_interpolated.rows[i].Variable = "Emissions|CO2" =>
                      \E k \in RefRowsOf(y) :
                          /\ BothValues(k)
                          /\ output_csv[1].rows[i].cells[y] =
                                Add(df_interpolated.rows[i].cells[y],
                                    Num(1000 * (df_excel[k].AC.v - df_excel[k].AA.v)))

\* a written table after 1976, which has no column, was skipped and 2023,
\* which has one, was adjusted by a non-zero amount
C21_Witness ==
    /\ prog = "adjust" /\ pc = "done" /\ output_csv # <<>>
    /\ warned = <<1976>>
    /\ 2023 \in DeltaYears \cap df_interpolated.columns
    /\ \E i \in DOMAIN df_interpolated.rows :
          output_csv[1].rows[i].cells[2023] # df_interpolated.rows[i].cells[2023]

(***************************************************************************)
(* The comparison of results whose series differ in length                 *)
(***************************************************************************)
LengthValues == {Num(1), Rat(-1, 2)}

\* results of any two lengths up to one more than MaxSeriesLen
InitCompareLengths ==
    /\ prog = "compare" /\ pc = "start"
    /\ main_pc = "none"
    /\ baseline_file = NoTable
    /\ counterfactual_file = NoTable
    /\ comparison = <<>>
    /\ execution = 0
    /\ first_execution = <<>>
    /\ running = "none" /\ suspended = <<>> /\ interleaved_results = <<>>
    /\ results_csv = <<>>
    /\ custom_series = <<>> /\ fair_length = 0 /\ written_series = <<>>
    /\ \E n \in 1..(MaxSeriesLen + 1), m \in 1..(MaxSeriesLen + 1) :
          \E a \in [1..n -> LengthValues], b \in [1..m -> LengthValues] :
             /\ baseline_results =
                   <<[temperature |-> a, co2_concentration |-> a, emissions |-> a,
                      years |-> [k \in 1..n |-> 2 * (DriverStart + k - 1)]]>>
             /\ counterfactual_results =
                   <<[temperature |-> b, co2_concentration |-> b, emissions |-> b,
                      years |-> [k \in 1..m |-> 2 * (DriverStart + k - 1)]]>>
    /\ IdleAdjust
    /\ IdleInterp
    /\ IdleDriver

SpecCompareLengths == InitCompareLengths /\ [][NextCompare]_vars

\* the difference of c and b with the shorter one padded with its last value
PaddedDiff(c, b) ==
    [i \in 1..(IF Len(c) > Len(b) THEN Len(c) ELSE Len(b)) |->
        Sub(c[IF i > Len(c) THEN Len(c) ELSE i], b[IF i > Len(b) THEN Len(b) ELSE i])]

\* the difference of c and b with the longer one cut to the length of the
\* shorter
TruncatedDiff(c, b) ==
    [i \in 1..(IF Len(c) < Len(b) THEN Len(c) ELSE Len(b)) |-> Sub(c[i], b[i])]

\* C22: when the series of the two results differ in length, the comparison
\* does not fail: its temperature difference series is the difference of
\* the two series after the shorter was padded with its last value or after
\* the longer was truncated to the length of the shorter.
C22_LengthPolicy ==
    (/\ prog = "compare" /\ pc \in {"done", "raised"}
     /\ Len(baseline_results[1].temperature) # Len(counterfactual_results[1].temperature))
    => /\ pc = "done"
       /\ comparison # <<>>
       /\ comparison[1].temp_diff_series \in
             {PaddedDiff(counterfactual_results[1].temperature,
                         baseline_results[1].temperature),
              TruncatedDiff(counterfactual_results[1].temperature,
                            baseline_results[1].temperature)}

(***************************************************************************)
(* The adjuster run again on the file the interpolator wrote               *)
(***************************************************************************)
\* the workbooks of at most one row
RerunWorkbooks == {t \in RefTables : Len(t) <= 1} \cup PipelineWorkbooks

\* create_counterfactual_interpolated.py is run once more
RerunAdjuster ==
    /\ prog = "adjust" /\ pc = "done"
    /\ execution > 0 /\ execution < MaxExecutions
    /\ execution' = execution + 1
    /\ first_execution' =
          IF first_execution = <<>>
          THEN <<[interpolated_csv |-> interpolated_csv, output_csv |-> output_csv,
                  comparison |-> comparison]>>
          ELSE first_execution
    /\ pc' = "start"
    /\ df_interpolated' = InterpolatedFileRead
    /\ adjustment_data' = <<>>
    /\ df_counterfactual' = NoTable
    /\ adj_i' = 0
    /\ warned' = <<>>
    /\ summary' = <<>>
    /\ UNCHANGED <<prog, df_excel, output_csv, runVars, results_csv, fitVars>>
    /\ UNCHANGED <<main_pc, baseline_file, counterfactual_file, baseline_results,
                   counterfactual_results, comparison>>
    /\ UNCHANGED <<interpVars, driverVars>>

NextRerun == NextInterp \/ StartAdjuster \/ NextAdjust \/ RerunAdjuster

InitRerun ==
    /\ prog = "interp" /\ pc = "start"
    /\ df_baseline \in PipelineRawTables
    /\ year_cols = <<>>
    /\ interpolated_data = <<>>
    /\ interp_i = 0
    /\ sparse_warned = <<>>
    /\ interpolated_csv = <<>>
    /\ df_excel \in RerunWorkbooks
    /\ df_interpolated = NoTable
    /\ adjustment_data = <<>>
    /\ df_counterfactual = NoTable
    /\ adj_i = 0
    /\ warned = <<>>
    /\ output_csv = <<>>
    /\ summary = <<>>
    /\ IdleDriver
    /\ main_pc = "none"
    /\ baseline_file = NoTable
    /\ counterfactual_file = NoTable
    /\ baseline_results = <<>>
    /\ counterfactual_results = <<>>
    /\ comparison = <<>>
    /\ execution = 1
    /\ first_execution = <<>>
    /\ running = "none" /\ suspended = <<>> /\ interleaved_results = <<>>
    /\ results_csv = <<>>
    /\ custom_series = <<>> /\ fair_length = 0 /\ written_series = <<>>

SpecRerun == InitRerun /\ [][NextRerun]_vars

\* C23: no step of the adjuster changes the interpolated table, in memory or
\* on disk, or the workbook, and no step of the interpolator changes the raw
\* table; the table the adjuster works on is the file as the interpolator
\* wrote it, which holds the interpolated rows and no adjustment; and the
\* adjuster run again writes the counterfactual table it wrote the first
\* time.
C23_InputsNotMutated ==
    [][/\ NextAdjust => UNCHANGED <<df_interpolated, interpolated_csv, df_excel>>
       /\ NextInterp => UNCHANGED df_baseline
       /\ prog' = "adjust" =>
             /\ df_interpolated' = interpolated_csv'[1]
             /\ interpolated_csv'[1].rows = interpolated_data'
       /\ (prog' = "adjust" /\ pc' = "done" /\ execution' > 1) =>
             output_csv' = first_execution'[1].output_csv]_vars

\* the adjuster has written its table a second time, after adjusting 1976 by
\* a non-zero amount both times
C23_Witness ==
    /\ prog = "adjust" /\ pc = "done" /\ execution = 2
    /\ Len(adjustment_data) = 1
    /\ output_csv[1] # interpolated_csv[1]
    /\ output_csv = first_execution[1].output_csv

(***************************************************************************)
(* Units of the emissions handed to the engine                             *)
(***************************************************************************)
\* the value of a table cell in the engine's unit: CO2 in Mt is divided by
\* 1000, everything else is taken as it is
NativeValue(sp, unit, c) ==
    IF sp \in {"CO2", "CO2 FFI"} /\ unit \in {"Mt CO2/yr", "MtCO2/yr"}
    THEN Rat(c[1], c[2] * 1000)
    ELSE c

\* C24: once the table is loaded, in both variants, the emissions of every
\* loaded species at the timepoint of every year that holds a value are that
\* value in the engine's unit: divided by 1000 for CO2 given in MtCO2/yr,
\* unchanged for CO2 given in GtCO2/yr and for the other species.
C24_NativeUnits ==
    (prog = "driver" /\ pc \notin {"configure", "defaults", "load"}) =>
        \A i \in DOMAIN df_emissions.rows :
            \A sp \in RowSpecies(variant, df_emissions.rows[i]) :
                \A y \in df_emissions.columns :
                    (IndexOfYear(y) # 0 /\ ~IsNaN(df_emissions.rows[i].cells[y])) =>
                        emissions[sp][IndexOfYear(y)] =
                            NativeValue(sp, df_emissions.rows[i].Unit,
                                        df_emissions.rows[i].cells[y])

(***************************************************************************)
(* The exported table                                                      *)
(***************************************************************************)
\* C25: after two completed runs and their comparison the table is built and
\* written: it has one entry per year of the results' year axis in every
\* one of its columns.
C25_ExportShape ==
    prog = "visualize" =>
        /\ pc = "done"
        /\ results_csv # <<>>
        /\ \A c \in DOMAIN results_csv[1] :
              Len(results_csv[1][c]) = Len(baseline_results[1].years)

(***************************************************************************)
(* The stages of main and their failures                                   *)
(***************************************************************************)
\* lines 382-385: raise FileNotFoundError
RaiseFileNotFound ==
    /\ prog = "main" /\ main_pc = "start"
    /\ ~(baseline_file # NoTable /\ counterfactual_file # NoTable)
    /\ main_pc' = "raised"
    /\ UNCHANGED <<prog, pc, baseline_file, counterfactual_file, baseline_results,
                   counterfactual_results, comparison, pipeVars>>
    /\ UNCHANGED <<adjVars, interpVars, driverVars>>

\* f.run() raises: the exception leaves run_fair_scenario and main, which
\* have no handler
RunRaises ==
    /\ prog = "driver" /\ pc = "run" /\ main_pc \in {"baseline", "counterfactual"}
    /\ pc' = "raised"
    /\ UNCHANGED <<prog, driverVars, mainVars>>
    /\ UNCHANGED <<adjVars, interpVars>>

NextStages == NextMain \/ RaiseFileNotFound \/ RunRaises

\* either file may be missing
InitStages ==
    \E baseline_table \in MainBaselineFiles :
        \E bf \in {NoTable, baseline_table},
           cf \in {NoTable, AddToColumn(baseline_table, WindowStart, Num(-2000))} :
            /\ InitMainOn(bf, cf)
            /\ allocated.first = NaN

SpecStages == InitStages /\ [][NextStages]_vars

\* C26: the comparison exists only when both calls have returned their
\* results and the exported table only when the comparison exists; when a
\* file is missing no run is started, nothing is compared and nothing is
\* written; and after a missing file or a failed run no further step is
\* taken, so that no run is started, nothing is compared, nothing is written
\* and nothing is retried.
C26_StagesAndAbort ==
    [][/\ ~(main_pc = "raised")
       /\ ~(prog = "driver" /\ pc = "raised")
       /\ comparison' # <<>> =>
             (baseline_results' # <<>> /\ counterfactual_results' # <<>>)
       /\ results_csv' # <<>> => comparison' # <<>>
       /\ (baseline_file = NoTable \/ counterfactual_file = NoTable) =>
             /\ prog' = "main" /\ run_count' = 0 /\ emissions' = <<>>
             /\ comparison' = <<>> /\ results_csv' = <<>>]_vars

\* the baseline run has returned and the engine has failed in the
\* counterfactual run: no comparison, no table
C26_Witness ==
    /\ prog = "driver" /\ pc = "raised" /\ main_pc = "counterfactual"
    /\ baseline_results # <<>>
    /\ comparison = <<>> /\ results_csv = <<>>

--------------------------------------------------------------------------------
\* The length checks of the proper loader (lines 141-192) as a function of the
\* series and of the engine's grid: a series of any length up to MaxFitLen is
\* written_series to an engine of fair_length timepoints and fair_length + 1 timebounds

MaxFitLen == 3

FitValues == {Num(0), Num(5), Rat(-1, 2)}

FitSeriesChoices ==
    UNION {[1..n -> FitValues] : n \in 0..MaxFitLen}

\* lines 141-153 (against the timebounds), 159-175 (against the timepoints of
\* f.emissions), 192 (the assignment)
FitSeries ==
    /\ prog = "fit" /\ pc = "start"
    /\ written_series' = <<FitLength(FitLength(custom_series, fair_length + 1),
                             fair_length)>>
    /\ pc' = "done"
    /\ UNCHANGED <<prog, custom_series, fair_length>>
    /\ UNCHANGED <<adjVars, interpVars, driverVars, main_pc, baseline_file,
                   counterfactual_file, baseline_results,
                   counterfactual_results, comparison, execution,
                   first_execution, runVars, results_csv>>

NextFit == FitSeries

InitFit ==
    /\ prog = "fit" /\ pc = "start"
    /\ IdleAdjust /\ IdleInterp /\ IdleDriver
    /\ main_pc = "off"
    /\ baseline_file = NoTable /\ counterfactual_file = NoTable
    /\ baseline_results = <<>> /\ counterfactual_results = <<>>
    /\ comparison = <<>>
    /\ execution = 0 /\ first_execution = <<>>
    /\ running = "none" /\ suspended = <<>> /\ interleaved_results = <<>>
    /\ results_csv = <<>>
    /\ custom_series \in FitSeriesChoices
    /\ fair_length \in 1..MaxFitLen
    /\ written_series = <<>>

SpecFit == InitFit /\ [][NextFit]_vars

\* C27: when the series length differs from the engine's number N of emissions
\* timepoints, loading does not abort; a longer series is truncated to its
\* first N entries and a shorter one is padded at the end with zeros, so the
\* series written to the engine has exactly N entries and entry i still holds
\* the value of the i-th year for every retained year
C27_ShapeRecovery ==
    /\ pc \in {"start", "done"}
    /\ (prog = "fit" /\ pc = "done") =>
          /\ written_series # <<>>
          /\ Len(written_series[1]) = fair_length
          /\ \A k \in 1..fair_length :
                written_series[1][k] = IF k <= Len(custom_series)
                               THEN custom_series[k]
                               ELSE <<0, 1>>

\* a series longer than the engine's grid and ending in a non-zero value has
\* been truncated
C27_Witness ==
    /\ prog = "fit" /\ pc = "done"
    /\ Len(custom_series) > fair_length
    /\ custom_series[Len(custom_series)] # <<0, 1>>
    /\ Len(written_series[1]) = fair_length

\* a series shorter than the engine's grid and ending in a non-zero value has
\* been padded
C27_WitnessPadded ==
    /\ prog = "fit" /\ pc = "done"
    /\ Len(custom_series) \in 1..(fair_length - 1)
    /\ custom_series[Len(custom_series)] # <<0, 1>>
    /\ written_series[1][fair_length] = <<0, 1>>

(***************************************************************************)
(* The adjustments of the workbook followed to the emissions difference    *)
(* of the comparison                                                       *)
(***************************************************************************)
\* the workbook: rows of the window, among them its last two years
EndToEndWorkbooks ==
    LET row(y, cf) == [Z |-> NumCell(y), AA |-> NumCell(20), AC |-> NumCell(cf)]
    IN {<<row(WindowStart, 18)>>,
        <<row(WindowEnd, 25)>>,
        <<row(WindowEnd - 1, 18)>>,
        <<row(WindowStart, 18), row(WindowEnd, 25)>>}

NextEndToEnd ==
    NextInterp \/ StartAdjuster \/ NextAdjust \/ StartMain \/ NextMain

InitEndToEnd ==
    /\ prog = "interp" /\ pc = "start"
    /\ execution = 1
    /\ first_execution = <<>>
    /\ running = "none" /\ suspended = <<>> /\ interleaved_results = <<>>
    /\ results_csv = <<>>
    /\ custom_series = <<>> /\ fair_length = 0 /\ written_series = <<>>
    /\ df_baseline \in PipelineRawTables
    /\ df_excel \in EndToEndWorkbooks
    /\ interpolated_csv = <<>>
    /\ output_csv = <<>>
    /\ variant \in {"simple", "proper"}
    /\ allocated = [first |-> NaN, rest |-> NaN, conc |-> NaN,
                    baseline |-> [sp \in SpeciesOf(variant) |->
                                     IF sp \in {"CO2", "CH4", "N2O"}
                                     THEN EngineBaseline(sp) ELSE NaN]]
    /\ year_cols = <<>> /\ interpolated_data = <<>> /\ interp_i = 0
    /\ sparse_warned = <<>>
    /\ df_interpolated = NoTable /\ adjustment_data = <<>>
    /\ df_counterfactual = NoTable /\ adj_i = 0 /\ warned = <<>> /\ summary = <<>>
    /\ scenario_name = "none" /\ df_emissions = NoTable /\ load_i = 0
    /\ emissions = <<>> /\ filled_log = <<>> /\ load_warned = <<>>
    /\ baseline_concentration = <<>> /\ climate_configs = <<>>
    /\ concentration = <<>> /\ forcing = <<>> /\ temperature = <<>>
    /\ cumulative_emissions = <<>> /\ airborne_emissions = <<>>
    /\ run_count = 0 /\ results = <<>>
    /\ main_pc = "none" /\ baseline_file = NoTable /\ counterfactual_file = NoTable
    /\ baseline_results = <<>> /\ counterfactual_results = <<>> /\ comparison = <<>>

SpecEndToEnd == InitEndToEnd /\ [][NextEndToEnd]_vars

\* the rows of adjustment_data whose year the loop of the adjuster found among
\* the columns, and those years
AppliedRows ==
    {i \in DOMAIN adjustment_data :
        \A w \in DOMAIN warned : warned[w] # IntOf(adjustment_data[i].Year)}

AppliedYears == {IntOf(adjustment_data[i].Year) : i \in AppliedRows}

\* an adjustment of the emissions file in the unit the variant hands to the
\* engine
HandedToEngine(a) ==
    IF variant = "simple" THEN a
    ELSE ConvertUnits("CO2 FFI", df_baseline.rows[1].Unit, a)

\* C28: for every year y at which the adjuster applied an adjustment a(y) the
\* emissions difference series of the comparison of run_fair_comparison.py
\* has an entry for year y equal to a(y) in the unit handed to the engine, the
\* difference is zero at every other year, and the cumulative emissions
\* difference is the sum of the applied adjustments.
C28_EndToEndDifference ==
    (comparison # <<>> /\ variant = "simple") =>
        LET diff == comparison[1].emissions_diff_series
        IN /\ \A i \in AppliedRows :
                 \E k \in DOMAIN diff :
                    /\ DriverStart + k - 1 = IntOf(adjustment_data[i].Year)
                    /\ diff[k] = HandedToEngine(adjustment_data[i].Adjustment_Mt)
           /\ \A k \in DOMAIN diff :
                 (DriverStart + k - 1) \notin AppliedYears => diff[k] = <<0, 1>>
           /\ comparison[1].cumulative_emissions_diff =
                 HandedToEngine(AdjustmentSum(adjustment_data))

\* the same, for the years before the last timepoint of the engine (2022.5)
\* and a workbook without a row of 2022 or 2023
C28_BeforeLastTimepoint ==
    (/\ comparison # <<>>
     /\ \A y \in AppliedYears : y < WindowEnd - 1) =>
        LET diff == comparison[1].emissions_diff_series
        IN /\ \A i \in AppliedRows :
                 diff[IntOf(adjustment_data[i].Year) - DriverStart + 1] =
                    HandedToEngine(adjustment_data[i].Adjustment_Mt)
           /\ \A k \in DOMAIN diff :
                 (DriverStart + k - 1) \notin AppliedYears => diff[k] = <<0, 1>>
           /\ comparison[1].cumulative_emissions_diff =
                 HandedToEngine(AdjustmentSum(adjustment_data))

\* the simple variant has compared two runs after an adjustment was applied at
\* 2023: the difference series ends at 2022 and is zero throughout
C28_Dropped2023 ==
    /\ comparison # <<>> /\ variant = "simple"
    /\ AppliedYears = {WindowEnd}
    /\ Len(comparison[1].emissions_diff_series) = WindowEnd - DriverStart
    /\ comparison[1].cumulative_emissions_diff = <<0, 1>>

(***************************************************************************)
(* The year axis of the results                                            *)
(***************************************************************************)
\* C29: the year axis returned with the results labels index i with the
\* integer calendar year 1750 + i, has the length of the temperature and of
\* the concentration series it is paired with, and ends at 2023.
C29_YearAxis ==
    (prog = "driver" /\ results # <<>>) =>
        LET years == results[1].years
        IN /\ \A k \in DOMAIN years : years[k] = 2 * (DriverStart + k - 1)
           /\ Len(years) = Len(results[1].temperature)
           /\ Len(years) = Len(results[1].co2_concentration)
           /\ years[Len(years)] = 2 * DriverEnd

\* the temperature and the concentration are on the engine's timebounds: their
\* last index is that of the timebound 2023
C29_LastIndexIs2023 ==
    (prog = "driver" /\ results # <<>>) =>
        /\ Len(results[1].temperature) = Len(TimeBounds)
        /\ Len(results[1].co2_concentration) = Len(TimeBounds)
        /\ TimeBounds[Len(TimeBounds)] = 2 * DriverEnd

\* the simple variant has returned its results: the axis ends at 2022 and is
\* one entry shorter than the temperature
C29_ShortAxis ==
    /\ prog = "driver" /\ variant = "simple" /\ results # <<>>
    /\ results[1].years[Len(results[1].years)] = 2 * (DriverEnd - 1)
    /\ Len(results[1].years) + 1 = Len(results[1].temperature)

\* the proper variant has returned its results: the axis is 1749.5, ...,
\* 2022.5
C29_HalfYearAxis ==
    /\ prog = "driver" /\ variant = "proper" /\ results # <<>>
    /\ results[1].years[1] = 2 * DriverStart - 1
    /\ results[1].years[Len(results[1].years)] = 2 * DriverEnd - 1

(***************************************************************************)
(* The two rules that map a year to an index of the emissions              *)
(***************************************************************************)
\* lines 154-158 of run_fair_comparison.py: the index of the timepoint equal
\* to year + 0.5 (0: no timepoint, the year is dropped)
ExactIndex(year) ==
    IF TimeIdx(2 * year + 1) = {} THEN 0 ELSE Min(TimeIdx(2 * year + 1))

\* lines 95-103 and 141-175 of run_fair_comparison_proper.py: entry
\* year - 1750 of the series, if it is left after the series was cut to the
\* number of timepoints (0: the year is dropped)
PositionalIndex(year) ==
    IF year - DriverStart + 1 \in 1..Len(TimePoints)
    THEN year - DriverStart + 1 ELSE 0

\* C30: for every year of 1750..2023 that is a column of the table, the rule
\* of each variant puts the year where the rule of the other variant does:
\* the loaded emissions hold the year's value at the index the other rule
\* names, and hold it nowhere when the other rule drops the year.
C30_SameIndex ==
    (prog = "driver" /\ pc \notin {"configure", "defaults", "load"}) =>
        \A i \in DOMAIN df_emissions.rows :
            \A sp \in RowSpecies(variant, df_emissions.rows[i]) :
                \A y \in df_emissions.columns \cap DenseYears :
                    LET other == IF variant = "simple" THEN PositionalIndex(y)
                                 ELSE ExactIndex(y)
                        value == LoadedValue(variant, sp, df_emissions.rows[i].Unit,
                                             df_emissions.rows[i].cells[y])
                    IN /\ ExactIndex(y) = PositionalIndex(y)
                       /\ IF other = 0
                          THEN \A k \in DOMAIN emissions[sp] : emissions[sp][k] # value
                          ELSE emissions[sp][other] = value

\* the proper variant has loaded CO2 from a table with the columns
\* 1749..2023: 1750 is at the first index, 2022 at the last, 2023 is dropped
C30_Witness ==
    /\ prog = "driver" /\ variant = "proper" /\ pc = "done"
    /\ df_emissions.columns = (DriverStart - 1)..DriverEnd
    /\ \E i \in DOMAIN df_emissions.rows :
          /\ "CO2 FFI" \in RowSpecies(variant, df_emissions.rows[i])
          /\ ExactIndex(DriverEnd) = 0
          /\ emissions["CO2 FFI"][ExactIndex(DriverEnd - 1)] =
                LoadedValue(variant, "CO2 FFI", df_emissions.rows[i].Unit,
                            df_emissions.rows[i].cells[DriverEnd - 1])

====
